---- MODULE Spec2Model ----
(***************************************************************************)
(* Chunk / embed / upload / validate pipeline of upload.py and            *)
(* validate_pinecone.py.                                                   *)
(*                                                                         *)
(* Text is a sequence of one-character strings.  A token is the sequence   *)
(* of characters it decodes to, so decode is concatenation.                *)
(***************************************************************************)
EXTENDS Integers, Sequences, FiniteSets, TLC

VARIABLES
    call,               \* the call under study of a pure method: its name and arguments
    ret,                \* what the method returned for that call, field by field
    directory,          \* the sorted listing of *.txt documents
    env,                \* what the embedding service and the index may answer
    index,              \* the vector index: id -> values
    run,                \* runs of upload_directory / validate_directory started so far
    pc,                 \* where the running script stands
    doc_idx,            \* position in the listing of the document being processed
    chunk_idx,          \* upload_text_file: chunk_idx of the for loop
    vectors,            \* upload_text_file: the accumulation buffer
    successful_chunks,  \* upload_text_file: successful_chunks
    upserts,            \* index.upsert calls of the current document, with their outcome
    log,                \* lines printed for the current document
    embedding,          \* the last get_embedding call: requests, waits, result
    summary,            \* the upload_text_file calls that returned, in order: those of the
                        \* last upload run, or of all runs where env.history says so
    report,             \* documents classified by the last validation run
    found_count,        \* validate_directory: found_count
    not_found_count,    \* validate_directory: not_found_count
    pinecone,           \* the index at the service: exists, ready, created by the run in progress
    waited              \* _wait_until_ready: seconds slept so far

fnVars == <<call, ret>>
worldVars == <<directory, env, index, run, pc, doc_idx, chunk_idx, vectors,
               successful_chunks, upserts, log, embedding, summary, report,
               found_count, not_found_count, pinecone, waited>>
vars == <<call, ret, directory, env, pinecone, waited, index, run, pc, doc_idx, chunk_idx, vectors,
          successful_chunks, upserts, log, embedding, summary, report,
          found_count, not_found_count>>

-----------------------------------------------------------------------------
(* Bounds of the model *)

MaxPathLen == 3      \* characters of an enumerated file path
MaxChunkNum == 3     \* enumerated chunk numbers 0..MaxChunkNum
MaxTextLen == 5      \* characters of an enumerated document text
MaxParam == 3        \* enumerated max_tokens 1..MaxParam, overlap_tokens 0..MaxParam
MaxDocs == 2         \* documents of a listing
MaxDocChunks == 2    \* chunks of an enumerated document
MaxRuns == 3         \* runs of the two scripts in one behaviour
MaxExtraChunks == 1  \* chunks beyond BATCH_SIZE of a long document

-----------------------------------------------------------------------------
(* Strings *)

Min(a, b) == IF a < b THEN a ELSE b

RECURSIVE Concat(_)
Concat(ss) == IF ss = <<>> THEN <<>> ELSE Head(ss) \o Concat(Tail(ss))

\* s[:n] of Python for n >= 0
Take(s, n) == SubSeq(s, 1, Min(n, Len(s)))

\* s[start:end] of Python for 0 <= start, 0 <= end (half open, clipped)
PySlice(s, start, end) == SubSeq(s, start + 1, Min(end, Len(s)))

\* all sequences over S of length 0..n
RECURSIVE SeqsUpTo(_, _)
SeqsUpTo(S, n) ==
    IF n = 0 THEN {<<>>}
    ELSE LET shorter == SeqsUpTo(S, n - 1)
         IN  shorter \cup {Append(s, c) : s \in {t \in shorter : Len(t) = n - 1}, c \in S}

\* str.rfind(c) + 1: the 1-based position of the last c, 0 when there is none
LastIndexOf(s, c) ==
    LET at == {i \in 1..Len(s) : s[i] = c}
    IN  IF at = {} THEN 0 ELSE CHOOSE i \in at : \A j \in at : j <= i

-----------------------------------------------------------------------------
(* generate_file_id *)

AlnumChars == {"a", "b", "1"}
PathChars == {"a", "1", "_", " ", ".", "/"}

HexDigits == <<"0", "1", "2", "3", "4", "5", "6", "7", "8", "9",
               "a", "b", "c", "d", "e", "f">>
DecDigits == <<"0", "1", "2", "3", "4", "5", "6", "7", "8", "9">>

CharCode(c) ==
    CASE c = "a" -> 97 [] c = "b" -> 98 [] c = "1" -> 49 [] c = "_" -> 95
      [] c = "-" -> 45 [] c = " " -> 32 [] c = "." -> 46 [] c = "/" -> 47
      [] OTHER -> 63

\* hashlib.md5(...).hexdigest()[:8].  The digest itself is the library's; it is
\* replaced by a deterministic digest of the path's characters and their
\* positions, kept as 8 hexadecimal digits (each 0..15) and computed over the
\* two halves of the path.
Stir(h, g) ==
    <<(h[2] * 7 + g[1] * 3 + h[1] + 1) % 16, (h[3] * 7 + g[2] * 5 + h[2] + 2) % 16,
      (h[4] * 7 + g[3] * 3 + h[3] + 3) % 16, (h[5] * 7 + g[4] * 5 + h[4] + 4) % 16,
      (h[6] * 7 + g[5] * 3 + h[5] + 5) % 16, (h[7] * 7 + g[6] * 5 + h[6] + 6) % 16,
      (h[8] * 7 + g[7] * 3 + h[7] + 7) % 16, (h[1] * 7 + g[8] * 5 + h[8] + 8) % 16>>

DigestSeed == <<5, 10, 15, 4, 9, 14, 3, 8>>

RECURSIVE Digest8(_, _, _)
Digest8(s, lo, hi) ==
    IF lo > hi THEN DigestSeed
    ELSE IF lo = hi
         THEN LET c == CharCode(s[lo]) + lo
              IN  Stir(DigestSeed, <<c, c \div 2, c \div 4, c \div 8,
                                     c \div 16, c \div 3, c \div 5, c \div 7>>)
         ELSE LET mid == (lo + hi) \div 2
                  left == Digest8(s, lo, mid)
                  right == Digest8(s, mid + 1, hi)
              IN  Stir(left, right)

Md5Hex8(s) == LET h == Digest8(s, 1, Len(s))
              IN  [i \in 1..8 |-> HexDigits[h[i] + 1]]

\* os.path.basename
basename(p) == SubSeq(p, LastIndexOf(p, "/") + 1, Len(p))

\* os.path.splitext(name)[0] for a name without separator: cut at the last dot,
\* unless only dots precede it
splitext_root(name) ==
    LET dot == LastIndexOf(name, ".")
    IN  IF dot > 0 /\ \E i \in 1..(dot - 1) : name[i] # "."
        THEN SubSeq(name, 1, dot - 1)
        ELSE name

\* "".join(c for c in filename if c.isalnum() or c in ('-', '_'))
CleanFilename(name) ==
    SelectSeq(name, LAMBDA c : c \in AlnumChars \/ c \in {"-", "_"})

RECURSIVE DecOf(_)
DecOf(n) == IF n < 10 THEN <<DecDigits[n + 1]>>
            ELSE Append(DecOf(n \div 10), DecDigits[(n % 10) + 1])

\* f"{n:03d}" for n >= 0
Format03d(n) ==
    LET d == DecOf(n)
    IN  IF Len(d) >= 3 THEN d ELSE [i \in 1..(3 - Len(d)) |-> "0"] \o d

STEM_LIMIT == 50

ChunkSuffix == <<"_", "c", "h", "u", "n", "k", "_">>

\* a plausible slip: the validator suffixes from chunk number 2 on
Mutant_PineconeValidator_generate_file_id(file_path, chunk_num) ==
    LET file_hash == Md5Hex8(file_path)
        filename == Take(CleanFilename(splitext_root(basename(file_path))), STEM_LIMIT)
    IN  IF chunk_num > 1
        THEN file_hash \o <<"_">> \o filename \o ChunkSuffix \o Format03d(chunk_num)
        ELSE file_hash \o <<"_">> \o filename

TextUploader_generate_file_id(file_path, chunk_num) ==
    LET file_hash == Md5Hex8(file_path)
        filename == Take(CleanFilename(splitext_root(basename(file_path))), STEM_LIMIT)
    IN  IF chunk_num > 0
        THEN file_hash \o <<"_">> \o filename \o ChunkSuffix \o Format03d(chunk_num)
        ELSE file_hash \o <<"_">> \o filename

PineconeValidator_generate_file_id(file_path, chunk_num) ==
    LET file_hash == Md5Hex8(file_path)
        filename == Take(CleanFilename(splitext_root(basename(file_path))), STEM_LIMIT)
    IN  IF chunk_num > 0
        THEN file_hash \o <<"_">> \o filename \o ChunkSuffix \o Format03d(chunk_num)
        ELSE file_hash \o <<"_">> \o filename

-----------------------------------------------------------------------------
(* Tokenizer *)

TextChars == {"a", "b", " "}
Whitespace == {" "}

\* The multi-character entries of the vocabulary.  As in the byte-pair
\* vocabularies of tiktoken, a word with its leading space is one token while
\* the same word without the space is not.
MergedTokens == {<<" ", "a", "b">>}

\* tokenizer.encode: the longest vocabulary entry at each position
RECURSIVE encode(_)
encode(text) ==
    IF text = <<>> THEN <<>>
    ELSE IF Len(text) >= 3 /\ SubSeq(text, 1, 3) \in MergedTokens
         THEN <<SubSeq(text, 1, 3)>> \o encode(SubSeq(text, 4, Len(text)))
         ELSE <<SubSeq(text, 1, 1)>> \o encode(Tail(text))

\* tokenizer.decode
decode(tokens) == Concat(tokens)

\* str.strip()
RECURSIVE lstrip(_)
lstrip(s) == IF s # <<>> /\ Head(s) \in Whitespace THEN lstrip(Tail(s)) ELSE s

RECURSIVE rstrip(_)
rstrip(s) ==
    IF s # <<>> /\ s[Len(s)] \in Whitespace THEN rstrip(SubSeq(s, 1, Len(s) - 1)) ELSE s

strip(s) == rstrip(lstrip(s))

\* count_tokens (the tokenizer's count; encode with disallowed_special=())
count_tokens(text) == Len(encode(text))

-----------------------------------------------------------------------------
(* chunk_text_by_tokens *)

MAX_TOKENS == 6000
OVERLAP_TOKENS == 100

\* a plausible slip: the window is one token too long
RECURSIVE LongWindow_ChunkLoop(_, _, _, _, _)
LongWindow_ChunkLoop(tokens, start, max_tokens, overlap_tokens, windows) ==
    IF ~(start < Len(tokens)) THEN windows
    ELSE LET end == Min(start + max_tokens + 1, Len(tokens))
             chunk_tokens == PySlice(tokens, start, end)
             chunk_text == decode(chunk_tokens)
             step == max_tokens - overlap_tokens
             taken == Append(windows,
                        [start |-> start, end |-> end, text |-> strip(chunk_text)])
         IN  IF step <= 0 THEN taken
             ELSE LongWindow_ChunkLoop(tokens, start + step, max_tokens,
                                       overlap_tokens, taken)

\* a plausible slip: the step is one token too long
RECURSIVE LongStep_ChunkLoop(_, _, _, _, _)
LongStep_ChunkLoop(tokens, start, max_tokens, overlap_tokens, windows) ==
    IF ~(start < Len(tokens)) THEN windows
    ELSE LET end == Min(start + max_tokens, Len(tokens))
             chunk_tokens == PySlice(tokens, start, end)
             chunk_text == decode(chunk_tokens)
             step == max_tokens - overlap_tokens + 1
             taken == Append(windows,
                        [start |-> start, end |-> end, text |-> strip(chunk_text)])
         IN  IF step <= 0 THEN taken
             ELSE LongStep_ChunkLoop(tokens, start + step, max_tokens,
                                     overlap_tokens, taken)

\* One pass of the while loop per window: the window [start, end) of the token
\* list and the trimmed text decoded from it (chunk_text.strip()).
RECURSIVE TextUploader_ChunkLoop(_, _, _, _, _)
TextUploader_ChunkLoop(tokens, start, max_tokens, overlap_tokens, windows) ==
    IF ~(start < Len(tokens)) THEN windows
    ELSE LET end == Min(start + max_tokens, Len(tokens))
             chunk_tokens == PySlice(tokens, start, end)
             chunk_text == decode(chunk_tokens)
             step == max_tokens - overlap_tokens
             taken == Append(windows,
                        [start |-> start, end |-> end, text |-> strip(chunk_text)])
         IN  IF step <= 0 THEN taken
             ELSE TextUploader_ChunkLoop(tokens, start + step, max_tokens,
                                         overlap_tokens, taken)

\* The index arithmetic of the while loop alone, on a list of n tokens: the
\* pairs (start, end) of its passes.
RECURSIVE ChunkLoopBounds(_, _, _, _)
ChunkLoopBounds(n, start, max_tokens, overlap_tokens) ==
    IF ~(start < n) THEN <<>>
    ELSE LET end == Min(start + max_tokens, n)
             step == max_tokens - overlap_tokens
         IN  <<[start |-> start, end |-> end]>>
             \o (IF step <= 0 THEN <<>>
                 ELSE ChunkLoopBounds(n, start + step, max_tokens, overlap_tokens))

\* the windows the loop takes (none when the text fits in max_tokens)
TextUploader_chunk_windows(text, max_tokens, overlap_tokens) ==
    LET tokens == encode(text)
    IN  IF Len(tokens) <= max_tokens THEN <<>>
        ELSE TextUploader_ChunkLoop(tokens, 0, max_tokens, overlap_tokens, <<>>)

\* if chunk_text.strip(): chunks.append(chunk_text.strip())
EmittedTexts(windows) ==
    LET kept == SelectSeq(windows, LAMBDA w : w.text # <<>>)
    IN  [i \in 1..Len(kept) |-> kept[i].text]

\* a plausible slip: the early return is dropped, so a short text is windowed
Mutant_TextUploader_chunk_text_by_tokens(text, max_tokens, overlap_tokens) ==
    EmittedTexts(TextUploader_ChunkLoop(encode(text), 0, max_tokens, overlap_tokens, <<>>))

TextUploader_chunk_text_by_tokens(text, max_tokens, overlap_tokens) ==
    LET tokens == encode(text)
    IN  IF Len(tokens) <= max_tokens THEN <<text>>
        ELSE EmittedTexts(TextUploader_chunk_windows(text, max_tokens, overlap_tokens))

RECURSIVE PineconeValidator_ChunkLoop(_, _, _, _, _)
PineconeValidator_ChunkLoop(tokens, start, max_tokens, overlap_tokens, windows) ==
    IF ~(start < Len(tokens)) THEN windows
    ELSE LET end == Min(start + max_tokens, Len(tokens))
             chunk_tokens == PySlice(tokens, start, end)
             chunk_text == decode(chunk_tokens)
             step == max_tokens - overlap_tokens
             taken == Append(windows,
                        [start |-> start, end |-> end, text |-> strip(chunk_text)])
         IN  IF step <= 0 THEN taken
             ELSE PineconeValidator_ChunkLoop(tokens, start + step, max_tokens,
                                              overlap_tokens, taken)

PineconeValidator_chunk_text_by_tokens(text, max_tokens, overlap_tokens) ==
    LET tokens == encode(text)
    IN  IF Len(tokens) <= max_tokens THEN <<text>>
        ELSE EmittedTexts(PineconeValidator_ChunkLoop(tokens, 0, max_tokens,
                                                      overlap_tokens, <<>>))

-----------------------------------------------------------------------------
(* Identifiers of a document's chunks *)

\* a plausible slip: a single chunk is numbered too
Mutant_UploadChunkId(file_path, n_chunks, at) ==
    IF n_chunks >= 1
    THEN TextUploader_generate_file_id(file_path, at + 1)
    ELSE TextUploader_generate_file_id(file_path, 0)

\* upload_text_file: the id of the chunk at position at (0-based)
UploadChunkId(file_path, n_chunks, at) ==
    IF n_chunks > 1
    THEN TextUploader_generate_file_id(file_path, at + 1)
    ELSE TextUploader_generate_file_id(file_path, 0)

\* a plausible slip: the validator numbers the only chunk of a document too
Numbered_IdsToCheck(file_path, n_chunks) ==
    [i \in 1..n_chunks |-> PineconeValidator_generate_file_id(file_path, i)]

\* validate_directory: ids_to_check
IdsToCheck(file_path, n_chunks) ==
    IF n_chunks > 1
    THEN [i \in 1..n_chunks |-> PineconeValidator_generate_file_id(file_path, i)]
    ELSE <<PineconeValidator_generate_file_id(file_path, 0)>>

NoResult == [k \in {} |-> <<>>]
Has(f) == f \in DOMAIN ret
With(f, v) == ret' = (f :> v) @@ ret

-----------------------------------------------------------------------------
(* get_embedding *)

HARD_TOKEN_LIMIT == 8190
timeout == 15
poll == 2
max_retries == 3
retry_delay == 5
BATCH_SIZE == 100

\* An error of the embedding service is the set of the substrings the code
\* looks for that str(e) contains ("quota" in the lower-cased message).
Signals == {"429", "quota", "400", "maximum context length"}
ErrorMessages == SUBSET Signals

\* "429" in str(e) or "quota" in str(e).lower()
Lenient_IsRateLimit(e) == "429" \in e \/ "quota" \in e \/ e = {}

IsRateLimit(e) == "429" \in e \/ "quota" \in e

\* "400" in str(e) or "maximum context length" in str(e)
IsTokenLimit(e) == "400" \in e \/ "maximum context length" \in e

NoCall == [requests |-> <<>>, waits |-> <<>>, errors |-> <<>>, result |-> "none"]

\* a plausible slip: the last attempt also waits and a fourth request is made
RECURSIVE ExtraAttempt_EmbedAttempts(_, _, _, _)
ExtraAttempt_EmbedAttempts(attempt, sent_tokens, script, trace) ==
    IF attempt >= max_retries + 1 THEN [trace EXCEPT !.result = "None"]
    ELSE LET asked == [trace EXCEPT !.requests = Append(@, sent_tokens)]
             e == script[Min(attempt + 1, Len(script))]
         IN  IF e.ok THEN [asked EXCEPT !.result = "vector"]
             ELSE LET failed == [asked EXCEPT !.errors = Append(@, e.msg)]
                  IN  IF IsRateLimit(e.msg)
                      THEN ExtraAttempt_EmbedAttempts(attempt + 1, sent_tokens, script,
                               [failed EXCEPT !.waits = Append(@, retry_delay * (attempt + 1))])
                      ELSE [failed EXCEPT !.result = "None"]

\* for attempt in range(max_retries): one request per pass; script[attempt + 1]
\* is what the service answers to it (a vector, or an error with message msg)
RECURSIVE EmbedAttempts(_, _, _, _)
EmbedAttempts(attempt, sent_tokens, script, trace) ==
    IF attempt >= max_retries THEN [trace EXCEPT !.result = "None"]
    ELSE LET asked == [trace EXCEPT !.requests = Append(@, sent_tokens)]
             e == script[attempt + 1]
         IN  IF e.ok THEN [asked EXCEPT !.result = "vector"]
             ELSE LET failed == [asked EXCEPT !.errors = Append(@, e.msg)]
                  IN  IF IsRateLimit(e.msg)
                      THEN IF attempt < max_retries - 1
                           THEN EmbedAttempts(attempt + 1, sent_tokens, script,
                                    [failed EXCEPT !.waits =
                                        Append(@, retry_delay * (attempt + 1))])
                           ELSE [failed EXCEPT !.result = "None"]
                      ELSE IF IsTokenLimit(e.msg)
                           THEN [failed EXCEPT !.result = "None"]
                           ELSE [failed EXCEPT !.result = "None"]

\* get_embedding(text) for a text of token_count tokens: a longer text is cut
\* to its first HARD_TOKEN_LIMIT tokens before the requests
get_embedding(token_count, script) ==
    LET sent_tokens == IF token_count > HARD_TOKEN_LIMIT
                       THEN Min(token_count, HARD_TOKEN_LIMIT)
                       ELSE token_count
    IN  EmbedAttempts(0, sent_tokens, script, NoCall)

\* what the service may answer to the requests of one call
Scripts(errors) ==
    [1..max_retries -> {[ok |-> TRUE, msg |-> {}]} \cup {[ok |-> FALSE, msg |-> e] : e \in errors}]

-----------------------------------------------------------------------------
(* upload_directory, upload_text_file *)

\* upload_text_file: chunk_tokens > 8190
LateTooLarge(chunk_tokens) == chunk_tokens > HARD_TOKEN_LIMIT + 1

TooLarge(chunk_tokens) == chunk_tokens > HARD_TOKEN_LIMIT

\* len(vectors) >= BATCH_SIZE
LateBatchFull(buffer) == Len(buffer) > BATCH_SIZE

BatchFull(buffer) == Len(buffer) >= BATCH_SIZE

\* a plausible slip: the batch of a failed upsert stays in the buffer
Kept_AfterUpsert(buffer, ok) == IF ok THEN <<>> ELSE buffer

\* vectors = []  after index.upsert in the loop, whether it returned or raised
AfterUpsert(buffer, ok) == <<>>

\* time.time() - start > timeout, the time being the time slept
TimedOut(slept) == slept > timeout

Doc == directory[doc_idx]
Chunks == Doc.chunks

IdsOf(buffer) == {buffer[i].id : i \in 1..Len(buffer)}

\* a plausible slip: an identifier already in the index keeps its vector
Insert_Upserted(idx, buffer) ==
    [id \in DOMAIN idx \cup IdsOf(buffer) |->
        IF id \in DOMAIN idx THEN idx[id]
        ELSE (CHOOSE v \in {buffer[i] : i \in 1..Len(buffer)} : v.id = id).values]

\* index.upsert(vectors=vectors) that succeeds: same id overwrites
Upserted(idx, buffer) ==
    [id \in DOMAIN idx \cup IdsOf(buffer) |->
        IF id \in IdsOf(buffer)
        THEN (CHOOSE v \in {buffer[i] : i \in 1..Len(buffer)} : v.id = id).values
        ELSE idx[id]]

\* a plausible slip: a line that tells of a skip without its cause
Bare_Line(msg, n) == [msg |-> "skipping", n |-> n]

\* a printed line: the message and the number it carries
Line(msg, n) == [msg |-> msg, n |-> n]

Written(calls) == UNION {IdsOf(calls[i].vectors) : i \in {j \in 1..Len(calls) : calls[j].ok}}

\* the identifiers upload_text_file can give the chunks of a document
ExpectedIds(d) == {UploadChunkId(d.file_path, Len(d.chunks), i - 1) : i \in 1..Len(d.chunks)}

LoopVars == <<chunk_idx, vectors, successful_chunks, upserts, log, embedding>>
ValidateVars == <<report, found_count, not_found_count>>

\* create_index has one pass of  while True  left or is done.  describe_index
\* answers with the state of the index at that moment, or raises.
WaitUntilReady ==
    /\ pc = "wait_until_ready"
    /\ \E answer \in {"ready"} \cup (IF env.index_slow THEN {"not ready"} ELSE {})
                              \cup (IF env.describe_fails THEN {"raises"} ELSE {}) :
          LET is_ready == IF answer = "raises" THEN pinecone.ready ELSE answer = "ready"
              over == answer # "ready" /\ (TimedOut(waited) \/ (answer = "raises" /\ waited = 0))
              said == IF answer = "raises"
                      THEN Append(log, Line("Error describing index (will retry)", waited))
                      ELSE log
          IN  /\ pinecone' = [pinecone EXCEPT !.ready = is_ready,
                                              !.created = pinecone.created /\ ~over]
              /\ IF answer = "ready"
                 THEN /\ pc' = "index_ready"
                      /\ log' = Append(said, Line("Index is ready", 0))
                      /\ UNCHANGED waited
                 ELSE IF TimedOut(waited)
                 THEN /\ pc' = "idle"
                      /\ log' = Append(said, Line("TimeoutError", timeout))
                      /\ UNCHANGED waited
                 ELSE IF answer = "raises" /\ waited = 0
                 THEN \* state and ready are not bound when the first describe_index
                      \* raised: the Waiting print raises UnboundLocalError
                      /\ pc' = "idle"
                      /\ log' = Append(said, Line("UnboundLocalError", 0))
                      /\ UNCHANGED waited
                 ELSE /\ pc' = pc
                      /\ log' = Append(said, Line("Waiting for index", waited))
                      /\ waited' = waited + poll
    /\ UNCHANGED <<call, ret, directory, env, index, run, doc_idx, chunk_idx, vectors,
                   successful_chunks, upserts, embedding, summary, ValidateVars>>

\* __main__ of upload.py: uploader.create_index().  An index of that name that
\* is listed is connected to as it is; between two runs it may have become ready.
CreateIndex ==
    /\ pc = "idle"
    /\ run < env.runs
    /\ run' = run + 1
    /\ waited' = 0
    /\ IF ~pinecone.exists
       THEN /\ pinecone' = [exists |-> TRUE, ready |-> FALSE, created |-> TRUE]
            /\ pc' = "wait_until_ready"
            /\ log' = <<Line("Creating new index", 0)>>
       ELSE /\ \E is_ready \in {TRUE} \cup {pinecone.ready} :
                  pinecone' = [pinecone EXCEPT !.ready = is_ready, !.created = FALSE]
            /\ pc' = "index_ready"
            /\ log' = <<Line("Connecting to existing index", 0), Line("Index is ready", 0)>>
    /\ UNCHANGED <<call, ret, directory, env, index, doc_idx, chunk_idx, vectors,
                   successful_chunks, upserts, embedding, summary, ValidateVars>>

\* __main__ of upload.py: uploader.upload_directory(...)
StartUpload ==
    /\ pc = "index_ready"
    /\ run' = run
    /\ pc' = "upload_directory"
    /\ doc_idx' = 1
    /\ summary' = IF env.history THEN summary ELSE <<>>
    /\ log' = <<>>
    /\ embedding' = NoCall
    /\ UNCHANGED <<call, ret, directory, env, pinecone, waited, index, chunk_idx, vectors,
                   successful_chunks, upserts, ValidateVars>>

\* upload_text_file up to the for loop
BeginTextFile ==
    /\ pc = "upload_directory"
    /\ doc_idx <= Len(directory)
    /\ embedding' = NoCall
    /\ IF Doc.blank
       THEN /\ log' = <<Line("No text extracted", 0)>>
            /\ doc_idx' = doc_idx + 1
            /\ UNCHANGED <<pc, chunk_idx, vectors, successful_chunks, upserts>>
       ELSE IF doc_idx \in env.encode_fails
       THEN \* tokenizer.encode raises in chunk_text_by_tokens; upload_directory
            \* catches it, prints it and continues with the next file
            /\ log' = <<Line("Error", doc_idx)>>
            /\ doc_idx' = doc_idx + 1
            /\ UNCHANGED <<pc, chunk_idx, vectors, successful_chunks, upserts>>
       ELSE /\ log' = <<Line("Created chunks", Len(Chunks))>>
            /\ pc' = "upload_text_file"
            /\ chunk_idx' = 0
            /\ vectors' = <<>>
            /\ successful_chunks' = 0
            /\ upserts' = <<>>
            /\ UNCHANGED doc_idx
    /\ UNCHANGED <<call, ret, directory, env, pinecone, waited, index, run, summary, ValidateVars>>

\* one pass of  for chunk_idx, chunk in enumerate(chunks)
ProcessChunk ==
    /\ pc = "upload_text_file"
    /\ chunk_idx < Len(Chunks)
    /\ chunk_idx' = chunk_idx + 1
    /\ LET chunk_tokens == Chunks[chunk_idx + 1]
       IN  IF chunk_tokens = 0
           THEN /\ log' = Append(log, Line("empty, skipping", chunk_idx + 1))
                /\ embedding' = NoCall
                /\ UNCHANGED <<vectors, successful_chunks, upserts, index>>
           ELSE IF TooLarge(chunk_tokens)
           THEN /\ log' = Append(log, Line("too large, skipping", chunk_idx + 1))
                /\ embedding' = NoCall
                /\ UNCHANGED <<vectors, successful_chunks, upserts, index>>
           ELSE LET vid == UploadChunkId(Doc.file_path, Len(Chunks), chunk_idx)
                    batch == Append(vectors,
                                [id |-> vid, values |-> run, chunk |-> chunk_idx + 1])
                    answers == Scripts(IF chunk_idx + 1 \in env.flaky THEN env.errors ELSE {})
                IN  \E emb \in {get_embedding(chunk_tokens, script) : script \in answers} :
                    \E upsert_ok \in {TRUE} \cup {~(env.upsert_fails /\ emb.result # "None"
                                                     /\ BatchFull(batch))} :
                    /\ embedding' = emb
                    /\ IF emb.result = "None"
                       THEN /\ log' = Append(log,
                                        Line("embedding failed, skipping", chunk_idx + 1))
                            /\ UNCHANGED <<vectors, successful_chunks, upserts, index>>
                       ELSE /\ successful_chunks' = successful_chunks + 1
                            /\ IF BatchFull(batch)
                               THEN /\ upserts' = Append(upserts,
                                                    [vectors |-> batch, ok |-> upsert_ok])
                                    /\ vectors' = AfterUpsert(batch, upsert_ok)
                                    /\ IF upsert_ok
                                       THEN /\ index' = Upserted(index, batch)
                                            /\ log' = Append(log, Line("Uploaded", Len(batch)))
                                       ELSE /\ index' = index
                                            /\ log' = Append(log, Line("Upload error", Len(batch)))
                               ELSE /\ vectors' = batch
                                    /\ UNCHANGED <<upserts, index, log>>
    /\ UNCHANGED <<call, ret, directory, env, pinecone, waited, run, pc, doc_idx, summary, ValidateVars>>

\* upload_text_file after the for loop
FinishTextFile ==
    /\ pc = "upload_text_file"
    /\ chunk_idx = Len(Chunks)
    /\ \E upsert_ok \in {TRUE} \cup {~(env.upsert_fails /\ vectors # <<>>)} :
          LET calls == IF vectors # <<>>
                       THEN Append(upserts, [vectors |-> vectors, ok |-> upsert_ok])
                       ELSE upserts
              said == IF vectors = <<>> THEN log
                      ELSE IF upsert_ok THEN Append(log, Line("Uploaded", Len(vectors)))
                      ELSE Append(log, Line("Upload error", Len(vectors)))
          IN  /\ upserts' = calls
              /\ index' = IF vectors # <<>> /\ upsert_ok THEN Upserted(index, vectors)
                          ELSE index
              /\ log' = Append(said, Line("Completed", successful_chunks))
              /\ summary' = Append(summary,
                                [run |-> run, doc |-> doc_idx, k |-> successful_chunks,
                                 n |-> Len(Chunks), written |-> Written(calls),
                                 stored |-> ExpectedIds(Doc) \cap DOMAIN index'])
    /\ pc' = "upload_directory"
    /\ doc_idx' = doc_idx + 1
    /\ UNCHANGED <<call, ret, directory, env, pinecone, waited, run, chunk_idx, vectors,
                   successful_chunks, embedding, ValidateVars>>

\* a KeyboardInterrupt reaches upload_text_file: no  except Exception  in it
\* or in get_embedding catches it, so the call is left where it stands and
\* upload_directory prints the message and breaks out of its loop
Interrupt ==
    /\ pc = "upload_text_file"
    /\ pc' = "upload_interrupted"
    /\ log' = Append(log, Line("Upload interrupted by user", doc_idx))
    /\ UNCHANGED <<call, ret, directory, env, pinecone, waited, index, run, doc_idx,
                   chunk_idx, vectors, successful_chunks, upserts, embedding, summary,
                   ValidateVars>>

\* upload_directory returns, its loop over or left by the break: the locals
\* of the run are gone
FinishUpload ==
    /\ IF pc = "upload_directory" THEN doc_idx > Len(directory)
       ELSE pc = "upload_interrupted"
    /\ pc' = "idle"
    /\ chunk_idx' = 0
    /\ vectors' = <<>>
    /\ successful_chunks' = 0
    /\ upserts' = <<>>
    /\ log' = <<>>
    /\ embedding' = NoCall
    /\ pinecone' = [pinecone EXCEPT !.created = FALSE]
    /\ UNCHANGED <<call, ret, directory, env, waited, index, run, doc_idx, summary, ValidateVars>>

-----------------------------------------------------------------------------
(* validate_directory *)

StartValidate ==
    /\ pc = "idle"
    /\ run < env.runs
    /\ run' = run + 1
    /\ pc' = "validate_directory"
    /\ doc_idx' = 1
    /\ report' = <<>>
    /\ found_count' = 0
    /\ not_found_count' = 0
    /\ UNCHANGED <<call, ret, directory, env, pinecone, waited, index, LoopVars, summary>>

\* fetch_response['vectors'] is truthy
AllVectors_Found(fetched, ids) == ids \subseteq fetched

Found(fetched, ids) == fetched # {}

\* one pass of  for idx, text_file in enumerate(text_files, 1)
ValidateDocument ==
    /\ pc = "validate_directory"
    /\ doc_idx <= Len(directory)
    /\ IF Doc.blank
       THEN /\ doc_idx' = doc_idx + 1
            /\ UNCHANGED <<pc, report, found_count, not_found_count>>
       ELSE IF doc_idx \in env.encode_fails
       THEN \* tokenizer.encode raises in chunk_text_by_tokens; nothing in
            \* validate_directory catches it, the exception leaves the loop
            /\ pc' = "validate_raised"
            /\ UNCHANGED <<doc_idx, report, found_count, not_found_count>>
       ELSE \E fetch_ok \in {TRUE} \cup {~env.fetch_fails} :
            LET ids_to_check == IdsToCheck(Doc.file_path, Len(Chunks))
                ids == {ids_to_check[i] : i \in 1..Len(ids_to_check)}
                fetched == ids \cap DOMAIN index
                outcome == IF ~fetch_ok THEN "Error fetching file"
                           ELSE IF Found(fetched, ids) THEN "Found" ELSE "Not Found"
            IN  /\ report' = Append(report,
                                [doc |-> doc_idx, ids |-> ids_to_check,
                                 fetched |-> IF fetch_ok THEN fetched ELSE {},
                                 outcome |-> outcome])
                /\ found_count' = IF outcome = "Found" THEN found_count + 1 ELSE found_count
                /\ not_found_count' = IF outcome = "Found" THEN not_found_count
                                      ELSE not_found_count + 1
                /\ doc_idx' = doc_idx + 1
                /\ UNCHANGED pc
    /\ UNCHANGED <<call, ret, directory, env, pinecone, waited, index, run, LoopVars, summary>>

\* validate_directory returns after printing the two counts, or is left by
\* the exception no handler caught
FinishValidate ==
    /\ IF pc = "validate_directory" THEN doc_idx > Len(directory)
       ELSE pc = "validate_raised"
    /\ pc' = "idle"
    /\ report' = <<>>
    /\ found_count' = 0
    /\ not_found_count' = 0
    /\ UNCHANGED <<call, ret, directory, env, pinecone, waited, index, run, doc_idx, LoopVars, summary>>

-----------------------------------------------------------------------------
(* The scripts on enumerated listings *)

FilePaths == <<<<"a", ".", "a">>, <<"b", " ", "1", ".", "a">>, <<"b", ".", "a">>>>

\* what count_tokens may say of a chunk: nothing, the most a request may carry,
\* and one more
ChunkTokenCounts == {0, HARD_TOKEN_LIMIT, HARD_TOKEN_LIMIT + 1}

ChunkLists == UNION {[1..n -> ChunkTokenCounts] : n \in 1..MaxDocChunks}

Documents(i) ==
    {[file_path |-> FilePaths[i], blank |-> TRUE, chunks |-> <<>>]}
    \cup {[file_path |-> FilePaths[i], blank |-> FALSE, chunks |-> c] : c \in ChunkLists}

\* a document of BATCH_SIZE chunks or more, all of them within the limit but one
LongDocuments ==
    {[file_path |-> FilePaths[1], blank |-> FALSE,
      chunks |-> [i \in 1..n |-> IF i = odd THEN 0 ELSE HARD_TOKEN_LIMIT]] :
        n \in BATCH_SIZE..(BATCH_SIZE + MaxExtraChunks + 1), odd \in {0, 1, BATCH_SIZE}}

RECURSIVE TotalChunks(_)
TotalChunks(d) == IF d = <<>> THEN 0 ELSE Len(Head(d).chunks) + TotalChunks(Tail(d))

\* listings of MaxDocs documents at most, with MaxDocChunks chunks in all
Listings == UNION {{d \in [1..n -> UNION {Documents(i) : i \in 1..n}] :
                       /\ \A i \in 1..n : d[i].file_path = FilePaths[i]
                       /\ TotalChunks(d) <= MaxDocChunks} : n \in 1..MaxDocs}

RateLimitError == {"429"}
OtherError == {}

NoIndex == [exists |-> FALSE, ready |-> FALSE, created |-> FALSE]

WorldIdle ==
    /\ directory = <<>>
    /\ env = [errors |-> {}, flaky |-> {}, upsert_fails |-> FALSE, fetch_fails |-> FALSE,
              runs |-> 0, index_slow |-> FALSE, describe_fails |-> FALSE, history |-> FALSE,
                encode_fails |-> {}]
    /\ pinecone = NoIndex
    /\ waited = 0
    /\ index = <<>>
    /\ run = 0
    /\ pc = "idle"
    /\ doc_idx = 1
    /\ chunk_idx = 0
    /\ vectors = <<>>
    /\ successful_chunks = 0
    /\ upserts = <<>>
    /\ log = <<>>
    /\ embedding = NoCall
    /\ summary = <<>>
    /\ report = <<>>
    /\ found_count = 0
    /\ not_found_count = 0

WorldStart(listings, environment) ==
    /\ call = [op |-> "none"]
    /\ ret = NoResult
    /\ directory \in listings
    /\ env = environment
    /\ pinecone = NoIndex
    /\ waited = 0
    /\ index = <<>>
    /\ run = 0
    /\ pc = "idle"
    /\ doc_idx = 1
    /\ chunk_idx = 0
    /\ vectors = <<>>
    /\ successful_chunks = 0
    /\ upserts = <<>>
    /\ log = <<>>
    /\ embedding = NoCall
    /\ summary = <<>>
    /\ report = <<>>
    /\ found_count = 0
    /\ not_found_count = 0

Init ==
    WorldStart(Listings,
               [errors |-> {RateLimitError, OtherError}, flaky |-> {1},
                upsert_fails |-> TRUE, fetch_fails |-> TRUE, runs |-> MaxRuns,
                index_slow |-> FALSE, describe_fails |-> FALSE, history |-> FALSE,
                encode_fails |-> {}])

Next ==
    \/ CreateIndex
    \/ WaitUntilReady
    \/ StartUpload
    \/ BeginTextFile
    \/ ProcessChunk
    \/ FinishTextFile
    \/ FinishUpload
    \/ StartValidate
    \/ ValidateDocument
    \/ FinishValidate

Spec == Init /\ [][Next]_vars

\* one document of one chunk, and every error the embedding service can raise
InitEmbed ==
    WorldStart({<<d>> : d \in {x \in Documents(1) : Len(x.chunks) <= 1}},
               [errors |-> ErrorMessages, flaky |-> {1},
                upsert_fails |-> TRUE, fetch_fails |-> FALSE, runs |-> 1,
                index_slow |-> FALSE, describe_fails |-> FALSE, history |-> FALSE,
                encode_fails |-> {}])

SpecEmbed == InitEmbed /\ [][Next]_vars

\* the document that follows the long one
ShortDocument == [file_path |-> FilePaths[2], blank |-> FALSE, chunks |-> <<HARD_TOKEN_LIMIT>>]

\* one long document and a short one, an embedding service that fails for few
\* chunks of the long one
InitBatch ==
    WorldStart({<<d, ShortDocument>> : d \in LongDocuments},
               [errors |-> {OtherError}, flaky |-> {2, BATCH_SIZE + 1},
                upsert_fails |-> TRUE, fetch_fails |-> FALSE, runs |-> 1,
                index_slow |-> FALSE, describe_fails |-> FALSE, history |-> FALSE,
                encode_fails |-> {}])

SpecBatch == InitBatch /\ [][Next]_vars

\* one document of one chunk, an index that takes its time to become ready and
\* a describe_index that may raise
InitIndex ==
    WorldStart({<<[file_path |-> FilePaths[1], blank |-> FALSE,
                   chunks |-> <<HARD_TOKEN_LIMIT>>]>>},
               [errors |-> {}, flaky |-> {}, upsert_fails |-> FALSE, fetch_fails |-> FALSE,
                runs |-> MaxRuns, index_slow |-> TRUE, describe_fails |-> TRUE, history |-> FALSE,
                encode_fails |-> {}])

SpecIndex == InitIndex /\ [][Next]_vars

\* the same runs, the thread inside _wait_until_ready going on with its loop
SpecIndexLive == InitIndex /\ [][Next]_vars /\ WF_vars(WaitUntilReady)

\* two runs over one document, the calls of both runs kept in summary
InitRepeat ==
    WorldStart({<<d>> : d \in Documents(1)},
               [errors |-> {OtherError}, flaky |-> {1}, upsert_fails |-> TRUE,
                fetch_fails |-> FALSE, runs |-> 2, index_slow |-> FALSE,
                describe_fails |-> FALSE, history |-> TRUE,
                encode_fails |-> {}])

SpecRepeat == InitRepeat /\ [][Next]_vars

\* runs that meet a document the tokenizer refuses and a KeyboardInterrupt
InitFaults ==
    \E refused \in {{}, {1}, {2}} :
        WorldStart(Listings,
                   [errors |-> {OtherError}, flaky |-> {1}, upsert_fails |-> TRUE,
                    fetch_fails |-> TRUE, runs |-> 2, index_slow |-> FALSE,
                    describe_fails |-> FALSE, history |-> FALSE,
                    encode_fails |-> refused])

NextFaults ==
    \/ Next
    \/ Interrupt

SpecFaults == InitFaults /\ [][NextFaults]_vars

-----------------------------------------------------------------------------
(* Calls of the pure methods on enumerated arguments *)

RECURSIVE Alternate(_)
Alternate(n) == IF n = 0 THEN <<>> ELSE Append(Alternate(n - 1), IF n % 2 = 0 THEN "a" ELSE "1")

LongPath == Alternate(STEM_LIMIT + MaxPathLen) \o <<".", "a">>
Paths == SeqsUpTo(PathChars, MaxPathLen) \cup {LongPath}
ChunkNums == 0..MaxChunkNum \cup {12, 100, 1000}

DocPath == <<"a", " ", "1", ".", "a">>
Texts == SeqsUpTo(TextChars, MaxTextLen)
MaxTokensParams == 1..MaxParam
OverlapParams == 0..MaxParam

InitId ==
    /\ call \in [op : {"generate_file_id"}, file_path : Paths, chunk_num : ChunkNums]
    /\ ret = NoResult
    /\ WorldIdle

UploaderGenerateFileId ==
    /\ call.op = "generate_file_id"
    /\ ~Has("upload")
    /\ With("upload", TextUploader_generate_file_id(call.file_path, call.chunk_num))
    /\ UNCHANGED <<call, worldVars>>

ValidatorGenerateFileId ==
    /\ call.op = "generate_file_id"
    /\ ~Has("validate")
    /\ With("validate", PineconeValidator_generate_file_id(call.file_path, call.chunk_num))
    /\ UNCHANGED <<call, worldVars>>

NextId == UploaderGenerateFileId \/ ValidatorGenerateFileId

SpecId == InitId /\ [][NextId]_vars

InitChunk ==
    /\ call \in [op : {"chunk_text_by_tokens"}, file_path : {DocPath}, text : Texts,
                 max_tokens : MaxTokensParams, overlap_tokens : OverlapParams]
    /\ ret = NoResult
    /\ WorldIdle

\* TextUploader.chunk_text_by_tokens(text, max_tokens, overlap_tokens), with the
\* windows its loop took, and the ids upload_text_file gives the chunks
UploaderChunk ==
    /\ call.op = "chunk_text_by_tokens"
    /\ ~Has("chunks")
    /\ LET chunks == TextUploader_chunk_text_by_tokens(call.text, call.max_tokens,
                                                       call.overlap_tokens)
       IN  ret' = [k \in {"chunks", "windows", "ids"} |->
                     CASE k = "chunks" -> chunks
                       [] k = "windows" -> TextUploader_chunk_windows(
                                             call.text, call.max_tokens, call.overlap_tokens)
                       [] OTHER -> [i \in 1..Len(chunks) |->
                                     UploadChunkId(call.file_path, Len(chunks), i - 1)]]
                  @@ ret
    /\ UNCHANGED <<call, worldVars>>

\* PineconeValidator.chunk_text_by_tokens and the ids validate_directory checks
ValidatorChunk ==
    /\ call.op = "chunk_text_by_tokens"
    /\ ~Has("vchunks")
    /\ LET chunks == PineconeValidator_chunk_text_by_tokens(call.text, call.max_tokens,
                                                            call.overlap_tokens)
       IN  ret' = [k \in {"vchunks", "ids_to_check"} |->
                     IF k = "vchunks" THEN chunks
                     ELSE IdsToCheck(call.file_path, Len(chunks))]
                  @@ ret
    /\ UNCHANGED <<call, worldVars>>

NextChunk == UploaderChunk \/ ValidatorChunk

SpecChunk == InitChunk /\ [][NextChunk]_vars

-----------------------------------------------------------------------------
(* chunk_text_by_tokens pass by pass: ret holds the position in the method
   (at), the locals tokens, start and chunks (emitted) and the passes made *)

\* a plausible slip: only a negative step breaks the loop
Negative_LoopBreaks(step) == step < 0

\* if step <= 0: break
LoopBreaks(step) == step <= 0

\* texts of a letter and the blank: words, runs of blanks, blank windows
LoopTexts == SeqsUpTo({"a", " "}, MaxTextLen)

InitLoop ==
    /\ call = [op |-> "none"]
    /\ ret = NoResult
    /\ WorldIdle

\* the method is called with some text and parameters
ChunkCall ==
    /\ call.op = "none"
    /\ call' \in [op : {"chunk_loop"}, file_path : {DocPath}, text : LoopTexts,
                  max_tokens : 0..MaxParam, overlap_tokens : OverlapParams]
    /\ UNCHANGED <<ret, worldVars>>

\* tokens = self.tokenizer.encode(text), the early return, chunks = [], start = 0
ChunkEnter ==
    /\ call.op = "chunk_loop"
    /\ ret = NoResult
    /\ LET tokens == encode(call.text)
       IN  ret' = IF Len(tokens) <= call.max_tokens
                  THEN [at |-> "returned", tokens |-> tokens, start |-> 0, passes |-> 0,
                        emitted |-> <<call.text>>]
                  ELSE [at |-> "while", tokens |-> tokens, start |-> 0, passes |-> 0,
                        emitted |-> <<>>]
    /\ UNCHANGED <<call, worldVars>>

\* one pass of  while start < len(tokens); the passes are counted, and capped
\* above the number a list of MaxTextLen tokens can need
ChunkPass ==
    /\ call.op = "chunk_loop"
    /\ ret # NoResult
    /\ ret.at = "while"
    /\ ret.start < Len(ret.tokens)
    /\ ret.passes <= MaxTextLen
    /\ LET end == Min(ret.start + call.max_tokens, Len(ret.tokens))
           chunk_tokens == PySlice(ret.tokens, ret.start, end)
           chunk_text == decode(chunk_tokens)
           step == call.max_tokens - call.overlap_tokens
       IN  ret' = [at |-> IF LoopBreaks(step) THEN "after" ELSE "while",
                   tokens |-> ret.tokens,
                   start |-> ret.start + step,
                   passes |-> ret.passes + 1,
                   emitted |-> IF strip(chunk_text) # <<>>
                               THEN Append(ret.emitted, strip(chunk_text))
                               ELSE ret.emitted]
    /\ UNCHANGED <<call, worldVars>>

\* return chunks, the loop being over or left by the break
ChunkReturn ==
    /\ call.op = "chunk_loop"
    /\ ret # NoResult
    /\ IF ret.at = "while" THEN ~(ret.start < Len(ret.tokens))
       ELSE ret.at = "after"
    /\ ret' = [ret EXCEPT !.at = "returned"]
    /\ UNCHANGED <<call, worldVars>>

NextLoop == ChunkCall \/ ChunkEnter \/ ChunkPass \/ ChunkReturn

\* the one thread of the program keeps running the method it is in
SpecLoop == InitLoop /\ [][NextLoop]_vars /\ WF_vars(NextLoop)

-----------------------------------------------------------------------------
(* One document on both sides: the ids upload_text_file puts into its upsert
   calls and the ids validate_directory derives from the same path and text *)

\* a plausible slip: a vector is numbered by its place among the vectors kept
RECURSIVE Renumbered_UpsertedVectors(_, _, _, _, _)
Renumbered_UpsertedVectors(file_path, chunks, at, lost, kept) ==
    IF at >= Len(chunks) THEN kept
    ELSE IF at + 1 \in lost
         THEN Renumbered_UpsertedVectors(file_path, chunks, at + 1, lost, kept)
         ELSE Renumbered_UpsertedVectors(file_path, chunks, at + 1, lost,
                  Append(kept, [id |-> UploadChunkId(file_path, Len(chunks), Len(kept)),
                                chunk |-> at + 1]))

\* upload_text_file, for chunk_idx, chunk in enumerate(chunks): a chunk in lost
\* takes one of the three continue statements (no tokens, too many tokens,
\* get_embedding returned None); any other gets its vid and joins the vectors,
\* which all go into an upsert call, in the loop or after it.
RECURSIVE UpsertedVectors(_, _, _, _, _)
UpsertedVectors(file_path, chunks, at, lost, kept) ==
    IF at >= Len(chunks) THEN kept
    ELSE IF at + 1 \in lost
         THEN UpsertedVectors(file_path, chunks, at + 1, lost, kept)
         ELSE UpsertedVectors(file_path, chunks, at + 1, lost,
                  Append(kept, [id |-> UploadChunkId(file_path, Len(chunks), at),
                                chunk |-> at + 1]))

\* a document of some text; max_tokens and overlap_tokens stand for the
\* defaults 6000 and 100, which both chunk_text_by_tokens methods have
InitSame ==
    /\ call \in [op : {"document"}, file_path : {DocPath}, text : LoopTexts,
                 max_tokens : MaxTokensParams, overlap_tokens : OverlapParams]
    /\ ret = NoResult
    /\ WorldIdle

\* TextUploader.upload_text_file(file_path)
UploadTextFile ==
    /\ call.op = "document"
    /\ ~Has("upserted")
    /\ IF strip(call.text) = <<>>
       THEN ret' = [k \in {"chunks", "upserted"} |-> <<>>] @@ [lost |-> {}] @@ ret
       ELSE LET chunks == TextUploader_chunk_text_by_tokens(call.text, call.max_tokens,
                                                           call.overlap_tokens)
            IN  \E lost \in SUBSET (1..Len(chunks)) :
                   ret' = [chunks |-> chunks, lost |-> lost,
                           upserted |-> UpsertedVectors(call.file_path, chunks, 0,
                                                        lost, <<>>)] @@ ret
    /\ UNCHANGED <<call, worldVars>>

\* PineconeValidator.validate_directory, one pass of its loop up to ids_to_check
ValidateTextFile ==
    /\ call.op = "document"
    /\ ~Has("ids_to_check")
    /\ IF strip(call.text) = <<>>
       THEN ret' = [k \in {"vchunks", "ids_to_check"} |-> <<>>] @@ ret
       ELSE LET chunks == PineconeValidator_chunk_text_by_tokens(
                             call.text, call.max_tokens, call.overlap_tokens)
            IN  ret' = [vchunks |-> chunks,
                        ids_to_check |-> IdsToCheck(call.file_path, Len(chunks))] @@ ret
    /\ UNCHANGED <<call, worldVars>>

NextSame == UploadTextFile \/ ValidateTextFile

SpecSame == InitSame /\ [][NextSame]_vars

-----------------------------------------------------------------------------
(* main.py: the download folder, the browser's downloads and wait_and_rename *)

MaxItems == 2
wait_and_rename_timeout == 15

Items == 1..MaxItems

\* target_name of an item, and the name the server gives its file
TargetName(i) == <<"target", i>>
ServerName(i) == <<"server", i>>

\* a file of the folder: its name and extension, its modification time (the
\* order in which the files were written) and the document whose bytes it holds
\* (0: a file that was there before the program started)
File(name, ext, mtime, doc) == [name |-> name, ext |-> ext, mtime |-> mtime, doc |-> doc]

\* a plausible slip: the oldest file
Oldest_get_latest_file(folder) ==
    LET valid_files == {f \in folder : f.ext \notin {"tmp", "crdownload"}}
    IN  IF valid_files = {} THEN {}
        ELSE {f \in valid_files : \A g \in valid_files : g.mtime >= f.mtime}

\* get_latest_file(folder): the files that may come first after the sort, none
\* when there is no valid file
get_latest_file(folder) ==
    LET valid_files == {f \in folder : f.ext \notin {"tmp", "crdownload"}}
    IN  IF valid_files = {} THEN {}
        ELSE {f \in valid_files : \A g \in valid_files : g.mtime <= f.mtime}

\* os.path.exists(os.path.join(folder, name))
Exists(folder, name) == \E f \in folder : f.name = name /\ f.ext = "pdf"

\* main() before its loop: the download folder is new or holds the renamed
\* documents of an earlier run
InitDownload ==
    /\ call = [op |-> "main"]
    /\ \E earlier \in {{}, {File(<<"target", 0>>, "pdf", 0, 0)}} :
          ret = [at |-> "main", item |-> 1, elapsed |-> 0, stamp |-> 0,
                 folder |-> earlier, before |-> earlier,
                 downloads |-> [i \in Items |-> "none"], returned |-> <<>>]
    /\ WorldIdle

\* main(), one item of the loop up to the call of wait_and_rename: an item
\* whose target exists is passed over, else driver.get asks for the download
MainItem ==
    /\ call.op = "main"
    /\ ret.at = "main"
    /\ ret.item <= MaxItems
    /\ IF Exists(ret.folder, TargetName(ret.item))
       THEN ret' = [ret EXCEPT !.item = @ + 1]
       ELSE ret' = [ret EXCEPT !.at = "wait_and_rename", !.elapsed = 0,
                               !.before = ret.folder,
                               !.downloads[ret.item] = "requested"]
    /\ UNCHANGED <<call, worldVars>>

\* the browser starts writing a requested download
DownloadBegins ==
    /\ call.op = "main"
    /\ \E i \in Items :
          /\ ret.downloads[i] = "requested"
          /\ ret' = [ret EXCEPT !.downloads[i] = "partial", !.stamp = @ + 1,
                                !.folder = @ \cup {File(ServerName(i), "crdownload",
                                                        ret.stamp + 1, i)}]
    /\ UNCHANGED <<call, worldVars>>

\* the browser finishes a download: the partial file becomes the file the
\* server named, which may be the target name when no such file is there
DownloadFinishes ==
    /\ call.op = "main"
    /\ \E i \in Items :
          /\ ret.downloads[i] = "partial"
          /\ \E name \in {ServerName(i)} \cup
                          (IF Exists(ret.folder, TargetName(i)) THEN {} ELSE {TargetName(i)}) :
                ret' = [ret EXCEPT !.downloads[i] = "done", !.stamp = @ + 1,
                                   !.folder = {f \in @ : f.doc # i \/ f.ext # "crdownload"}
                                              \cup {File(name, "pdf", ret.stamp + 1, i)}]
    /\ UNCHANGED <<call, worldVars>>

\* the value wait_and_rename returns to main, with the state it is left in
Return(value, folder) ==
    ret' = [ret EXCEPT !.at = "main", !.item = @ + 1, !.folder = folder,
                       !.returned = Append(@, [item |-> ret.item, value |-> value,
                                               elapsed |-> ret.elapsed,
                                               before |-> ret.before, after |-> folder])]

\* wait_and_rename(folder, target_filename), one pass of its while loop
WaitAndRenamePass ==
    /\ call.op = "main"
    /\ ret.at = "wait_and_rename"
    /\ LET target == TargetName(ret.item)
           candidates == get_latest_file(ret.folder)
       IN  IF ret.elapsed >= wait_and_rename_timeout THEN Return(FALSE, ret.folder)
           ELSE IF candidates = {} THEN ret' = [ret EXCEPT !.elapsed = @ + 1]
           ELSE \E latest \in candidates :
                   IF latest.ext \in {"crdownload", "tmp"} THEN ret' = [ret EXCEPT !.elapsed = @ + 1]
                   ELSE IF latest.name = target THEN Return(TRUE, ret.folder)
                   ELSE \E raises \in {"no", "os.rename"} \cup
                                       (IF Exists(ret.folder, target) THEN {"os.remove"} ELSE {}) :
                          LET removed == IF raises = "os.remove" THEN ret.folder
                                         ELSE {f \in ret.folder :
                                                 f.name # target \/ f.ext # "pdf"}
                              renamed == (removed \ {latest})
                                         \cup {[latest EXCEPT !.name = target]}
                          IN  IF raises = "no" THEN Return(TRUE, renamed)
                              ELSE ret' = [ret EXCEPT !.folder = removed, !.elapsed = @ + 2]
    /\ UNCHANGED <<call, worldVars>>

NextDownload == MainItem \/ DownloadBegins \/ DownloadFinishes \/ WaitAndRenamePass

SpecDownload == InitDownload /\ [][NextDownload]_vars

-----------------------------------------------------------------------------
(* Properties of generate_file_id *)

RECURSIVE DecValue(_)
DecValue(d) == IF d = <<>> THEN 0 ELSE DecValue(SubSeq(d, 1, Len(d) - 1)) * 10
                                       + (CHOOSE v \in 0..9 : DecDigits[v + 1] = d[Len(d)])

IsHex8(s) == Len(s) = 8 /\ \A i \in 1..8 : \E v \in 1..16 : HexDigits[v] = s[i]
IsStem(s) == Len(s) <= STEM_LIMIT /\ \A i \in 1..Len(s) : s[i] \in AlnumChars \cup {"-", "_"}
IsDigits(s) == \A i \in 1..Len(s) : \E v \in 1..10 : DecDigits[v] = s[i]

\* '{hash8}_{stem}' for chunk number 0, '{hash8}_{stem}_chunk_{NNN}' otherwise
IdFormat(id, chunk_num) ==
    LET width == IF chunk_num >= 1000 THEN 4 ELSE 3
        cut == IF chunk_num > 0 THEN Len(id) - width - Len(ChunkSuffix) ELSE Len(id)
    IN  /\ cut >= 9
        /\ IsHex8(SubSeq(id, 1, 8))
        /\ id[9] = "_"
        /\ IsStem(SubSeq(id, 10, cut))
        /\ chunk_num > 0 =>
             /\ SubSeq(id, cut + 1, cut + Len(ChunkSuffix)) = ChunkSuffix
             /\ IsDigits(SubSeq(id, cut + Len(ChunkSuffix) + 1, Len(id)))
             /\ DecValue(SubSeq(id, cut + Len(ChunkSuffix) + 1, Len(id))) = chunk_num

\* C1: for every path and chunk number >= 0 the upload path and the validation
\* path derive the same identifier, unsuffixed '{hash8}_{stem}' for chunk
\* number 0 and '{hash8}_{stem}_chunk_{NNN}' otherwise.
C1_SameIdOnBothPaths ==
    /\ Has("upload") => IdFormat(ret.upload, call.chunk_num)
    /\ Has("validate") => IdFormat(ret.validate, call.chunk_num)
    /\ Has("upload") /\ Has("validate") => ret.upload = ret.validate

C1_Witness ==
    /\ Has("upload") /\ Has("validate")
    /\ call.chunk_num = 1
    /\ Len(call.file_path) > STEM_LIMIT

-----------------------------------------------------------------------------
(* Properties of chunk_text_by_tokens *)

Tokens == encode(call.text)
NTokens == Len(Tokens)

\* tokens[-k:] and tokens[:k] as token lists of k tokens at most
LastK(s, k) == SubSeq(s, IF Len(s) > k THEN Len(s) - k + 1 ELSE 1, Len(s))
FirstK(s, k) == Take(s, k)

WindowTokens(w) == PySlice(Tokens, w.start, w.end)
WindowLen(w) == w.end - w.start
IsBlank(token) == \A i \in 1..Len(token) : token[i] \in Whitespace

\* C3 as claimed: every chunk returned has at most max_tokens tokens.
C3_ChunkWithinMaxTokens ==
    Has("chunks") =>
        \A i \in 1..Len(ret.chunks) : count_tokens(ret.chunks[i]) <= call.max_tokens

\* C3 as amended: every chunk returned is the whole text of at most max_tokens
\* tokens, or the whitespace-trimmed, non-empty decoding of a window of at
\* most max_tokens consecutive tokens of the encoded text.
C3_ChunkIsTrimmedWindow ==
    Has("chunks") =>
        \A i \in 1..Len(ret.chunks) :
            \/ ret.chunks = <<call.text>> /\ NTokens <= call.max_tokens
            \/ /\ ret.chunks[i] # <<>>
               /\ \E a \in 0..NTokens : \E b \in a..NTokens :
                     /\ b - a <= call.max_tokens
                     /\ ret.chunks[i] = strip(decode(PySlice(Tokens, a, b)))

\* a window of max_tokens tokens whose trimmed text re-encodes to more tokens
C3_Witness ==
    /\ Has("chunks")
    /\ Len(ret.chunks) >= 2
    /\ \E i \in 1..Len(ret.chunks) : count_tokens(ret.chunks[i]) > call.max_tokens

\* C4: a text of at most max_tokens tokens comes back as the one chunk equal to
\* the text, the upload path and the validation path give it the unsuffixed
\* identifier, and numbered identifiers (from 1) are used only for a chunk list
\* of more than one chunk.
C4_SingleChunkUnsuffixed ==
    LET plain == TextUploader_generate_file_id(call.file_path, 0)
    IN  /\ Has("chunks") =>
              /\ NTokens <= call.max_tokens =>
                    ret.chunks = <<call.text>> /\ ret.ids = <<plain>>
              /\ Len(ret.chunks) <= 1 => \A i \in 1..Len(ret.ids) : ret.ids[i] = plain
              /\ Len(ret.chunks) > 1 =>
                    \A i \in 1..Len(ret.ids) :
                        ret.ids[i] = TextUploader_generate_file_id(call.file_path, i)
        /\ Has("vchunks") =>
              /\ NTokens <= call.max_tokens =>
                    ret.vchunks = <<call.text>> /\ ret.ids_to_check = <<plain>>
              /\ Len(ret.vchunks) <= 1 => ret.ids_to_check = <<plain>>
              /\ Len(ret.vchunks) > 1 =>
                    ret.ids_to_check =
                        [i \in 1..Len(ret.vchunks) |->
                            TextUploader_generate_file_id(call.file_path, i)]

C4_Witness ==
    /\ Has("chunks") /\ Has("vchunks")
    /\ NTokens >= 1 /\ NTokens <= call.max_tokens
    /\ Len(ret.ids) = 1

\* C5 as claimed: for every max_tokens and overlap_tokens every token position
\* lies in at least one emitted window.
C5_EveryTokenInAnEmittedWindow ==
    Has("windows") =>
        \/ NTokens <= call.max_tokens
        \/ \A p \in 0..(NTokens - 1) :
              \E i \in 1..Len(ret.windows) :
                  /\ ret.windows[i].text # <<>>
                  /\ ret.windows[i].start <= p /\ p < ret.windows[i].end

\* C5 as amended: when overlap_tokens < max_tokens the windows the loop takes
\* start at 0, each starts inside or right after the one before, the last ends
\* at the last token, so every token position lies in a window; the emitted
\* windows are those whose text is not blank, so every position whose token is
\* not whitespace lies in an emitted window.
C5_WindowsCoverTokens ==
    Has("windows") /\ NTokens > call.max_tokens /\ call.overlap_tokens < call.max_tokens =>
        LET w == ret.windows
        IN  /\ Len(w) >= 1
            /\ w[1].start = 0
            /\ w[Len(w)].end = NTokens
            /\ \A i \in 1..(Len(w) - 1) :
                  w[i].start < w[i + 1].start /\ w[i + 1].start <= w[i].end
            /\ \A p \in 0..(NTokens - 1) :
                  /\ \E i \in 1..Len(w) : w[i].start <= p /\ p < w[i].end
                  /\ ~IsBlank(Tokens[p + 1]) =>
                        \E i \in 1..Len(w) :
                            w[i].text # <<>> /\ w[i].start <= p /\ p < w[i].end
            /\ ret.chunks = EmittedTexts(w)

\* a run of three windows or more with overlap, one of them blank and dropped
C5_Witness ==
    /\ Has("windows")
    /\ call.overlap_tokens >= 1 /\ call.overlap_tokens < call.max_tokens
    /\ Len(ret.windows) >= 3
    /\ \E i \in 1..Len(ret.windows) : ret.windows[i].text = <<>>
    /\ Len(ret.chunks) < Len(ret.windows)

\* C6 as claimed: with overlap_tokens < max_tokens the last overlap_tokens
\* tokens of every chunk are the first overlap_tokens tokens of the next one.
C6_ChunksOverlap ==
    Has("chunks") /\ call.overlap_tokens < call.max_tokens =>
        \A i \in 1..(Len(ret.chunks) - 1) :
            LastK(encode(ret.chunks[i]), call.overlap_tokens)
                = FirstK(encode(ret.chunks[i + 1]), call.overlap_tokens)

\* C6 as amended: with overlap_tokens < max_tokens each window starts
\* max_tokens - overlap_tokens tokens after the one before; the last
\* overlap_tokens tokens of window i are the first overlap_tokens tokens of
\* window i + 1 when window i + 1 holds that many tokens, and a window that
\* holds fewer lies wholly inside the one before it.
C6_WindowsOverlap ==
    Has("windows") /\ call.overlap_tokens < call.max_tokens =>
        LET w == ret.windows
        IN  \A i \in 1..(Len(w) - 1) :
              /\ w[i + 1].start = w[i].start + call.max_tokens - call.overlap_tokens
              /\ WindowLen(w[i + 1]) >= call.overlap_tokens =>
                    /\ WindowLen(w[i]) = call.max_tokens
                    /\ LastK(WindowTokens(w[i]), call.overlap_tokens)
                         = FirstK(WindowTokens(w[i + 1]), call.overlap_tokens)
              /\ WindowLen(w[i + 1]) < call.overlap_tokens =>
                    /\ w[i].start <= w[i + 1].start
                    /\ w[i + 1].end = w[i].end

\* a trailing window shorter than the overlap after a full overlapping pair
C6_Witness ==
    /\ Has("windows")
    /\ call.overlap_tokens >= 1 /\ call.overlap_tokens < call.max_tokens
    /\ Len(ret.windows) >= 3
    /\ WindowLen(ret.windows[2]) >= call.overlap_tokens
    /\ WindowLen(ret.windows[Len(ret.windows)]) < call.overlap_tokens

-----------------------------------------------------------------------------
(* Properties of the upload and validation runs *)

\* a pass of the loop over the chunks has just ended, for chunk number chunk_idx
AfterChunk == pc = "upload_text_file" /\ chunk_idx >= 1

\* upload_text_file has just returned for directory[doc_idx - 1]
AfterTextFile ==
    /\ pc = "upload_directory"
    /\ summary # <<>>
    /\ summary[Len(summary)].run = run
    /\ summary[Len(summary)].doc = doc_idx - 1

\* validate_directory has just reported on directory[doc_idx - 1]
AfterValidate ==
    /\ pc = "validate_directory"
    /\ report # <<>>
    /\ report[Len(report)].doc = doc_idx - 1

LastReport == report[Len(report)]
Validated == directory[LastReport.doc]
Uploaded == directory[summary[Len(summary)].doc]
SingleChunk(d) == ~d.blank /\ Len(d.chunks) = 1
UnsuffixedId(d) == TextUploader_generate_file_id(d.file_path, 0)
CompletedUpload(i) == \E k \in 1..Len(summary) : summary[k].doc = i
StoredByUpload(i, id) == \E k \in 1..Len(summary) : summary[k].doc = i /\ id \in summary[k].written

Uploading == pc \in {"upload_directory", "upload_text_file"}

\* C11 as claimed: upload_directory runs, and upserts are issued, only against
\* an index that has been observed ready.
C11_NoUploadBeforeReady ==
    /\ Uploading => pinecone.ready
    /\ upserts # <<>> => pinecone.ready

\* C11, what create_index does: a run that created the index itself reaches
\* upload_directory only after describe_index said ready; a run that finds the
\* index listed connects and uploads whatever the state of the index.
C11_ReadyWhenCreatedByTheRun ==
    /\ pc = "index_ready" \/ Uploading => pinecone.exists
    /\ (pc = "index_ready" \/ Uploading) /\ pinecone.created => pinecone.ready
    /\ pc = "wait_until_ready" => pinecone.created /\ waited <= timeout + poll

\* a second run that upserts into the index a timed-out first run created,
\* while the index is still not ready
C11_Witness ==
    /\ pc = "upload_directory"
    /\ upserts # <<>>
    /\ ~pinecone.ready
    /\ ~pinecone.created
    /\ run > 1

\* C2 as claimed: a document of a single chunk (of 1 to 8190 tokens) is reported
\* Not Found (counted as not found) while its identifier is not in the index,
\* and Found by a validate_directory run that follows a completed
\* upload_text_file run on it.
C2_FoundAfterCompletedUpload ==
    AfterValidate /\ SingleChunk(Validated) /\ ~TooLarge(Validated.chunks[1])
                  /\ Validated.chunks[1] > 0 =>
        /\ UnsuffixedId(Validated) \notin DOMAIN index => LastReport.outcome # "Found"
        /\ CompletedUpload(LastReport.doc) => LastReport.outcome = "Found"

\* C2 as amended: a document of a single chunk is never reported Found while
\* its identifier is not in the index (Not Found, or a fetch error that is
\* counted as not found); an upload_text_file run stores the identifier exactly
\* when the chunk was embedded and the upsert succeeded, and a validate_directory
\* run that follows such a run reports Found unless its fetch raises.
C2_FoundWhenStored ==
    /\ AfterValidate /\ SingleChunk(Validated) =>
          LET id == UnsuffixedId(Validated)
          IN  /\ LastReport.ids = <<id>>
              /\ id \notin DOMAIN index =>
                    /\ LastReport.outcome \in {"Not Found", "Error fetching file"}
                    /\ not_found_count >= 1
              /\ StoredByUpload(LastReport.doc, id) =>
                    /\ id \in DOMAIN index
                    /\ index[id] < run
                    /\ LastReport.outcome \in {"Found", "Error fetching file"}
              /\ LastReport.outcome # "Error fetching file" =>
                    (LastReport.outcome = "Found" <=> id \in DOMAIN index)
    /\ AfterTextFile /\ SingleChunk(Uploaded) =>
          LET id == UnsuffixedId(Uploaded)
              stored == /\ embedding.result = "vector"
                        /\ Len(upserts) = 1
                        /\ upserts[1].ok
          IN  /\ stored <=> id \in summary[Len(summary)].written
              /\ stored => id \in DOMAIN index /\ index[id] = run

\* Not Found in the first run, stored by the second, Found in the third
C2_Witness ==
    /\ AfterValidate /\ SingleChunk(Validated)
    /\ run = 3
    /\ StoredByUpload(LastReport.doc, UnsuffixedId(Validated))
    /\ index[UnsuffixedId(Validated)] = 2
    /\ LastReport.outcome = "Found"

Last(s) == s[Len(s)]

\* the entry appended for the chunk of the pass that has just ended
Appended == IF vectors # <<>> THEN Last(vectors) ELSE Last(Last(upserts).vectors)

RECURSIVE Flatten(_)
Flatten(calls) ==
    IF calls = <<>> THEN <<>>
    ELSE Flatten(SubSeq(calls, 1, Len(calls) - 1)) \o Last(calls).vectors

C8_NoRetryOnTokenLimit ==
    \A k \in 1..Len(embedding.errors) :
        LET e == embedding.errors[k]
        IN  IsTokenLimit(e) \/ ~IsRateLimit(e) =>
                /\ embedding.result = "None"
                /\ Len(embedding.errors) = k
                /\ Len(embedding.requests) = k
                /\ Len(embedding.waits) < k

\* C8, what get_embedding does: the rate-limit test comes first.  An error
\* without '429' or 'quota' ends the call at once, with None, no wait and no
\* further request; an error with one of them is followed by a wait and another
\* request (unless it answers the third request), also when its message
\* contains '400' or 'maximum context length'.
C8_RateLimitTestedFirst ==
    \A k \in 1..Len(embedding.errors) :
        LET e == embedding.errors[k]
        IN  /\ "429" \notin e /\ "quota" \notin e =>
                  /\ embedding.result = "None"
                  /\ Len(embedding.errors) = k
                  /\ Len(embedding.requests) = k
                  /\ Len(embedding.waits) = k - 1
            /\ ("429" \in e \/ "quota" \in e) /\ k < 3 =>
                  /\ Len(embedding.requests) >= k + 1
                  /\ Len(embedding.waits) >= k

\* a context-length error whose message contains '429' too, asked three times
C8_Witness ==
    /\ AfterChunk
    /\ Len(embedding.requests) = 3
    /\ Len(embedding.errors) = 3
    /\ embedding.waits = <<5, 10>>
    /\ \A k \in 1..3 : embedding.errors[k] = {"429", "maximum context length"}
    /\ embedding.result = "None"
    /\ Last(log) = Line("embedding failed, skipping", chunk_idx)

\* C9 as claimed: a chunk of more than 8190 tokens is cut to its first 8190
\* tokens and sent, and no request carries more than 8190 tokens.
C9_OversizedChunkTruncatedAndSent ==
    /\ \A k \in 1..Len(embedding.requests) : embedding.requests[k] <= 8190
    /\ AfterChunk /\ Chunks[chunk_idx] > 8190 =>
          /\ embedding.requests # <<>>
          /\ \A k \in 1..Len(embedding.requests) : embedding.requests[k] = 8190

\* C9 as amended: upload_text_file skips a chunk of more than 8190 tokens with a
\* warning, without any embedding request and without an entry in the batch; a
\* chunk of 1 to 8190 tokens is sent whole, so no request carries more than
\* 8190 tokens.
C9_OversizedChunkSkipped ==
    /\ \A k \in 1..Len(embedding.requests) : embedding.requests[k] <= 8190
    /\ AfterChunk /\ Chunks[chunk_idx] > 8190 =>
          /\ embedding = NoCall
          /\ Last(log) = Line("too large, skipping", chunk_idx)
          /\ \A i \in 1..Len(vectors) : vectors[i].chunk # chunk_idx
          /\ \A i \in 1..Len(Flatten(upserts)) : Flatten(upserts)[i].chunk # chunk_idx
    /\ AfterChunk /\ Chunks[chunk_idx] \in 1..8190 =>
          /\ embedding.requests # <<>>
          /\ \A k \in 1..Len(embedding.requests) : embedding.requests[k] = Chunks[chunk_idx]

\* a chunk of 8191 tokens skipped after a chunk of 8190 tokens was embedded
C9_Witness ==
    /\ AfterChunk
    /\ chunk_idx = 2
    /\ Chunks[1] = 8190 /\ Chunks[2] = 8191
    /\ Len(vectors) = 1
    /\ Last(log) = Line("too large, skipping", 2)

Skipping == {"empty, skipping", "too large, skipping", "embedding failed, skipping"}
Skipped == {log[k].n : k \in {j \in 1..Len(log) : log[j].msg \in Skipping}}

\* the entries handed to upsert so far, then those waiting in the buffer
Handed == Flatten(upserts) \o (IF pc = "upload_text_file" THEN vectors ELSE <<>>)

\* C10: between the passes of the loop the buffer holds fewer than 100 entries;
\* an upsert made inside the loop carries exactly 100 entries and the one made
\* after the loop carries the 1 to 99 entries left, if any; every chunk that was
\* embedded is counted once and lies in exactly one upsert call or still in the
\* buffer, in the order of the chunks.
C10_BatchesOfBatchSize ==
    pc = "upload_text_file" \/ AfterTextFile =>
        /\ Len(vectors) < 100
        /\ \A i \in 1..Len(upserts) :
              Len(upserts[i].vectors) >= 1 /\ Len(upserts[i].vectors) <= 100
        /\ \A i \in 1..(Len(upserts) - 1) : Len(upserts[i].vectors) = 100
        /\ pc = "upload_text_file" =>
              \A i \in 1..Len(upserts) : Len(upserts[i].vectors) = 100
        /\ AfterTextFile =>
              /\ vectors # <<>> => upserts # <<>> /\ Last(upserts).vectors = vectors
              /\ vectors = <<>> => \A i \in 1..Len(upserts) : Len(upserts[i].vectors) = 100
        /\ Len(Handed) = successful_chunks
        /\ \A i \in 1..(Len(Handed) - 1) : Handed[i].chunk < Handed[i + 1].chunk
        /\ {Handed[i].chunk : i \in 1..Len(Handed)} = (1..chunk_idx) \ Skipped

\* a batch of 100 entries upserted in the loop, a remainder upserted after it,
\* and a chunk in between whose embedding failed
C10_Witness ==
    /\ AfterTextFile
    /\ Len(upserts) = 2
    /\ Len(upserts[1].vectors) = 100
    /\ Len(upserts[2].vectors) >= 1
    /\ successful_chunks < Len(Uploaded.chunks)
    /\ \E k \in 1..Len(log) : log[k].msg = "embedding failed, skipping"

-----------------------------------------------------------------------------
(* Properties of validate_directory *)

NonBlankUpTo(n) == {i \in 1..n : ~directory[i].blank}
ReportedAs(outcomes) == {k \in 1..Len(report) : report[k].outcome \in outcomes}

\* C12: every document with text that validate_directory has passed is counted
\* once, as found when the fetch of its expected identifiers returned a vector
\* (one of several expected identifiers is enough) and as not found when it
\* returned none (or raised); when the loop ends found_count + not_found_count
\* is the number of documents with text.
C12_FoundOrNotFound ==
    pc = "validate_directory" =>
        /\ \A k \in 1..Len(report) :
              LET r == report[k]
                  d == directory[r.doc]
                  expected == {r.ids[i] : i \in 1..Len(r.ids)}
              IN  /\ ~d.blank
                  /\ r.ids = IdsToCheck(d.file_path, Len(d.chunks))
                  /\ r.outcome \in {"Found", "Not Found", "Error fetching file"}
                  /\ r.outcome = "Found" <=> r.fetched # {}
                  /\ r.outcome = "Found" => r.fetched = expected \cap DOMAIN index
                  /\ r.outcome = "Not Found" => expected \cap DOMAIN index = {}
        /\ {report[k].doc : k \in 1..Len(report)} = NonBlankUpTo(doc_idx - 1)
        /\ Len(report) = Cardinality(NonBlankUpTo(doc_idx - 1))
        /\ found_count = Cardinality(ReportedAs({"Found"}))
        /\ not_found_count = Cardinality(ReportedAs({"Not Found", "Error fetching file"}))
        /\ found_count + not_found_count = Cardinality(NonBlankUpTo(doc_idx - 1))

\* the loop has ended; a document of two chunks with one identifier in the
\* index was counted as found
C12_Witness ==
    /\ pc = "validate_directory"
    /\ doc_idx > Len(directory)
    /\ found_count = 1
    /\ \E k \in 1..Len(report) :
          /\ Len(report[k].ids) = 2
          /\ Cardinality(report[k].fetched) = 1
          /\ report[k].outcome = "Found"

-----------------------------------------------------------------------------
(* Properties of repeated and failing uploads *)

\* the upload_text_file calls on document i that returned before the last one
EarlierCalls(i) == {k \in 1..(Len(summary) - 1) : summary[k].doc = i}

\* C13 as claimed: when upload_text_file returns for a document for the second
\* time, the index holds for it the identifiers it held after the first time,
\* each with the vector of the second run, and no identifier outside the
\* expected sets.
C13_SecondUploadSameIds ==
    /\ DOMAIN index \subseteq UNION {ExpectedIds(directory[i]) : i \in 1..Len(directory)}
    /\ AfterTextFile =>
          LET e == Last(summary)
          IN  \A k \in EarlierCalls(e.doc) :
                  /\ e.stored = summary[k].stored
                  /\ \A id \in e.stored : index[id] = e.run

\* C13 as amended: the index never holds an identifier outside the expected
\* sets; when upload_text_file returns again for a document the index holds for
\* it the identifiers it held after the call before together with those this
\* call upserted successfully; an identifier this call upserted carries the
\* vector of this run, any other keeps the vector of an earlier run; when this
\* call upserted every identifier stored before, the set is unchanged.
C13_UpsertOverwrites ==
    /\ DOMAIN index \subseteq UNION {ExpectedIds(directory[i]) : i \in 1..Len(directory)}
    /\ AfterTextFile =>
          LET e == Last(summary)
          IN  /\ e.written \subseteq e.stored
              /\ e.stored = ExpectedIds(Uploaded) \cap DOMAIN index
              /\ \A id \in e.written : index[id] = e.run
              /\ \A id \in e.stored \ e.written : index[id] < e.run
              /\ \A k \in EarlierCalls(e.doc) :
                    /\ summary[k].run < e.run
                    /\ summary[k].stored \subseteq e.stored
                    /\ (\A j \in EarlierCalls(e.doc) : j <= k) =>
                          /\ e.stored = summary[k].stored \cup e.written
                          /\ summary[k].stored \subseteq e.written => e.stored = e.written

\* a second call that upserts again all the first one stored, two identifiers
C13_Witness ==
    /\ AfterTextFile
    /\ EarlierCalls(Last(summary).doc) # {}
    /\ Cardinality(Last(summary).written) = 2
    /\ \A k \in EarlierCalls(Last(summary).doc) : summary[k].stored = Last(summary).written
    /\ \A id \in Last(summary).stored : index[id] = run

-----------------------------------------------------------------------------
(* C14: an interrupt during upload_directory *)

\* upload_text_file returned in this run for document i
CompletedInRun(i) == \E k \in 1..Len(summary) : summary[k].doc = i /\ summary[k].run = run

\* C14 as claimed: when upload_directory stops on an interrupt, the document it
\* was processing has been completed, every chunk passed and no vector left
\* in the buffer without an upsert.
C14_StopsAfterCurrentDocument ==
    pc = "upload_interrupted" =>
        /\ CompletedInRun(doc_idx)
        /\ chunk_idx = Len(Chunks)
        /\ vectors = <<>>

\* C14, what the code does: the interrupt leaves upload_text_file where it
\* stands.  The message is printed, the document has no Completed line, the
\* vectors of the buffer are in no upsert and not in the index, the index
\* holds of the document what the upserts issued before wrote, and the run
\* ends there: no document is started, no upsert issued, nothing reported.
C14_InterruptAbandonsDocument ==
    /\ [](pc = "upload_interrupted" =>
            /\ Last(log) = Line("Upload interrupted by user", doc_idx)
            /\ ~CompletedInRun(doc_idx)
            /\ IdsOf(vectors) \cap Written(upserts) = {}
            /\ {id \in DOMAIN index : index[id] = run} \cap ExpectedIds(Doc)
                  = Written(upserts))
    /\ [][pc = "upload_interrupted" =>
            /\ pc' = "idle"
            /\ index' = index
            /\ summary' = summary]_vars

\* interrupted with a vector in the buffer and a document with text to come
C14_Witness ==
    /\ pc = "upload_interrupted"
    /\ vectors # <<>>
    /\ IdsOf(vectors) \cap DOMAIN index = {}
    /\ doc_idx < Len(directory)
    /\ ~directory[doc_idx + 1].blank

-----------------------------------------------------------------------------
(* C15: an error raised while one document is processed *)

\* the documents before position n whose text the tokenizer encodes
Encoded(n) == {i \in NonBlankUpTo(n) : i \notin env.encode_fails}

\* C15 as claimed: neither loop is left while a document remains, whatever was
\* raised for the documents before.
C15_ErrorNeverEndsRun ==
    pc = "validate_raised" => doc_idx > Len(directory)

\* C15, what the code does: upload_directory passes every document; one the
\* tokenizer refuses is logged and left, every other one with text is
\* completed, failed embeddings and upserts included.  validate_directory
\* reports every document with text, a failed fetch included, up to the first
\* one the tokenizer refuses: there the exception leaves the loop and the run
\* ends, with the documents from that one on unvalidated and no count printed.
C15_UploadContinuesValidateStops ==
    /\ [](pc = "upload_directory" =>
            /\ \A i \in Encoded(doc_idx - 1) : CompletedInRun(i)
            /\ ((doc_idx - 1) \in NonBlankUpTo(doc_idx - 1) \ Encoded(doc_idx - 1)
                  => log = <<Line("Error", doc_idx - 1)>>))
    /\ [](pc \in {"validate_directory", "validate_raised"} =>
            /\ {report[k].doc : k \in 1..Len(report)} = NonBlankUpTo(doc_idx - 1)
            /\ Encoded(doc_idx - 1) = NonBlankUpTo(doc_idx - 1))
    /\ [](pc = "validate_raised" =>
            /\ doc_idx <= Len(directory)
            /\ doc_idx \in env.encode_fails
            /\ ~Doc.blank)
    /\ [][pc = "validate_raised" => pc' = "idle" /\ report' = <<>>]_vars

\* validate_directory left by the exception with a document with text to
\* come, which upload_directory had completed after the same exception
C15_Witness ==
    /\ pc = "validate_raised"
    /\ doc_idx < Len(directory)
    /\ ~directory[doc_idx + 1].blank
    /\ CompletedUpload(doc_idx + 1)
    /\ report = <<>>

-----------------------------------------------------------------------------
(* C16: an upsert that fails *)

\* the upsert calls of the current upload_text_file that raised
Failed == {j \in 1..Len(upserts) : ~upserts[j].ok}

UploadErrors == {k \in 1..Len(log) : log[k].msg = "Upload error"}

\* C16: while upload_text_file runs and when it has returned, every upsert
\* that raised has its log line; no entry of its batch is in a later upsert,
\* in the buffer or in the index; the buffer is empty after the failed upsert
\* of the loop; the chunks after the batch are processed, those embedded
\* being in the buffer or in a later upsert; and upload_directory completes
\* every document with text, those after the failure included.
C16_FailedBatchDiscarded ==
    /\ (pc = "upload_text_file" \/ AfterTextFile) =>
          /\ Cardinality(UploadErrors) = Cardinality(Failed)
          /\ \A j \in Failed :
                /\ \E k \in UploadErrors : log[k].n = Len(upserts[j].vectors)
                /\ \A i \in (j + 1)..Len(upserts) :
                      IdsOf(upserts[j].vectors) \cap IdsOf(upserts[i].vectors) = {}
                /\ pc = "upload_text_file" =>
                      IdsOf(upserts[j].vectors) \cap IdsOf(vectors) = {}
                /\ IdsOf(upserts[j].vectors) \cap DOMAIN index = {}
    /\ pc = "upload_text_file" =>
          \A j \in Failed :
              /\ Last(upserts[j].vectors).chunk = chunk_idx => vectors = <<>>
              /\ \A i \in 1..Len(vectors) :
                    vectors[i].chunk > Last(upserts[j].vectors).chunk
    /\ AfterTextFile =>
          /\ chunk_idx = Len(Uploaded.chunks)
          /\ {Handed[i].chunk : i \in 1..Len(Handed)} \cup Skipped = 1..Len(Uploaded.chunks)
    /\ pc = "upload_directory" =>
          \A i \in NonBlankUpTo(doc_idx - 1) : CompletedInRun(i)

\* the upsert in the loop failed for the first document, its remaining chunks
\* were upserted at the end, and the next document was uploaded
C16_Witness ==
    /\ AfterTextFile
    /\ Len(summary) = 2
    /\ summary[1].k > BATCH_SIZE
    /\ summary[1].written # {}
    /\ Cardinality(summary[1].written) < BATCH_SIZE
    /\ summary[2].written # {}
    /\ DOMAIN index = summary[1].written \cup summary[2].written

-----------------------------------------------------------------------------
(* C17: the Completed line *)

Raised(c) == ~c.ok

\* C17 as claimed: in  Completed (k/n chunks uploaded)  n is the number of
\* chunks of the document and k the number of chunks a successful upsert
\* wrote to the index.
C17_CompletedCountsWritten ==
    AfterTextFile =>
        /\ Last(summary).n = Len(Uploaded.chunks)
        /\ Last(summary).k = Cardinality(Last(summary).written)

\* C17, what the code does: n is the number of chunks of the document and k
\* the number of chunks that were embedded and appended to the buffer, that
\* is the chunks not skipped, whether the upsert that carried them returned
\* or raised.  k is the number written only when no upsert raised; otherwise
\* it is larger by the size of the failed batches.
C17_CompletedCountsEmbedded ==
    AfterTextFile =>
        /\ Last(log) = Line("Completed", Last(summary).k)
        /\ Last(summary).n = Len(Uploaded.chunks)
        /\ Last(summary).k = Len(Flatten(upserts))
        /\ Last(summary).k = Len(Uploaded.chunks) - Cardinality(Skipped)
        /\ Cardinality(Last(summary).written) + Len(Flatten(SelectSeq(upserts, Raised)))
              = Last(summary).k

\* Completed (2/2 chunks uploaded)  printed with nothing written to the index
C17_Witness ==
    /\ AfterTextFile
    /\ Last(summary).k = 2
    /\ Last(summary).n = 2
    /\ Last(summary).written = {}
    /\ ExpectedIds(Uploaded) \cap DOMAIN index = {}

-----------------------------------------------------------------------------
(* C18: no silent data loss *)

\* the upsert calls that carried chunk c of the document
Carrying(c) == {j \in 1..Len(upserts) :
                  \E i \in 1..Len(upserts[j].vectors) : upserts[j].vectors[i].chunk = c}

\* what kept chunk c of document d out of the index
Cause(d, c) ==
    IF d.chunks[c] = 0 THEN "empty, skipping"
    ELSE IF d.chunks[c] > HARD_TOKEN_LIMIT THEN "too large, skipping"
    ELSE IF Carrying(c) # {} THEN "Upload error"
    ELSE "embedding failed, skipping"

\* C18: when upload_text_file has returned, every chunk of the document that
\* no upsert of the call wrote to the index has a line in the log of the call
\* that names what happened to it: the chunk number with empty, too large or
\* embedding failed, or Upload error for the batch that carried it.  A
\* document left without a Completed line has its own line: No text
\* extracted, the error that was raised, or the interrupt.
C18_EveryLossLogged ==
    /\ AfterTextFile =>
          \A c \in 1..Len(Uploaded.chunks) :
              UploadChunkId(Uploaded.file_path, Len(Uploaded.chunks), c - 1)
                    \notin Last(summary).written =>
                  \E k \in 1..Len(log) :
                      /\ log[k].msg = Cause(Uploaded, c)
                      /\ log[k].n = IF Carrying(c) = {} THEN c
                                    ELSE Len(upserts[CHOOSE j \in Carrying(c) : TRUE].vectors)
                      /\ Carrying(c) # {} => Carrying(c) \subseteq Failed
    /\ (pc = "upload_directory" /\ doc_idx > 1 /\ ~CompletedInRun(doc_idx - 1)) =>
          /\ Len(log) = 1
          /\ log[1].msg = IF directory[doc_idx - 1].blank THEN "No text extracted" ELSE "Error"
          /\ ~directory[doc_idx - 1].blank => (doc_idx - 1) \in env.encode_fails
    /\ pc = "upload_interrupted" => Last(log).msg = "Upload interrupted by user"

\* a document whose chunk was lost in a failed upsert, after a document with
\* text that the tokenizer refused
C18_Witness ==
    /\ AfterTextFile
    /\ Last(summary).written = {}
    /\ \E c \in 1..Len(Uploaded.chunks) : Cause(Uploaded, c) = "Upload error"
    /\ \E k \in 1..Len(log) : log[k].msg = "Upload error"
    /\ doc_idx > 2
    /\ ~directory[doc_idx - 2].blank
    /\ (doc_idx - 2) \in env.encode_fails

-----------------------------------------------------------------------------
(* C19: the windows of chunk_text_by_tokens *)

\* the window numbers k = 0, 1, ... with k * step < n
WindowNumbers(n, step) == {k \in 0..n : k * step < n}

\* the window with number k
WindowNumbered(n, max_tokens, step, k) ==
    [start |-> k * step, end |-> Min(k * step + max_tokens, n)]

Bounds(w) == [i \in 1..Len(w) |-> [start |-> w[i].start, end |-> w[i].end]]

\* the text has more than max_tokens tokens and the step is positive
Stepping == NTokens > call.max_tokens /\ call.max_tokens - call.overlap_tokens > 0

\* C19 as claimed: every window k with k * step < n is emitted as a chunk, the
\* chunk of window k being number k + 1 of the list and of the identifiers.
C19_EveryWindowEmitted ==
    Has("windows") /\ Stepping =>
        LET step == call.max_tokens - call.overlap_tokens
            K == WindowNumbers(NTokens, step)
        IN  /\ Len(ret.chunks) = Cardinality(K)
            /\ \A k \in K :
                  /\ ret.chunks[k + 1] # <<>>
                  /\ ret.chunks[k + 1] = strip(decode(PySlice(Tokens, k * step,
                                               Min(k * step + call.max_tokens, NTokens))))
                  /\ ret.ids[k + 1] = TextUploader_generate_file_id(call.file_path, k + 1)

\* C19 as amended: the loop takes window k = [k * step, min(k * step +
\* max_tokens, n)) for k = 0, 1, ... while k * step < n, and no other; the
\* chunks are the trimmed texts of the windows that are not blank, in that
\* order, numbered from 1 in the list that is left when there are several.
\* For n = 15000, max_tokens = 6000 and overlap_tokens = 100 the windows are
\* 0-6000, 5900-11900 and 11800-15000, and three chunks have the identifiers
\* with the suffixes _chunk_001, _chunk_002 and _chunk_003.
C19_WindowsByFormula ==
    /\ Has("windows") /\ Stepping =>
          LET step == call.max_tokens - call.overlap_tokens
              K == WindowNumbers(NTokens, step)
              w == ret.windows
          IN  /\ Len(w) = Cardinality(K)
              /\ \A k \in K :
                    /\ w[k + 1].start = k * step
                    /\ w[k + 1].end = Min(k * step + call.max_tokens, NTokens)
                    /\ w[k + 1].text = strip(decode(PySlice(Tokens, w[k + 1].start,
                                                            w[k + 1].end)))
              /\ Bounds(w) = ChunkLoopBounds(NTokens, 0, call.max_tokens, call.overlap_tokens)
              /\ ret.chunks = EmittedTexts(w)
              /\ Len(ret.chunks) > 1 =>
                    \A i \in 1..Len(ret.chunks) :
                        ret.ids[i] = TextUploader_generate_file_id(call.file_path, i)
    /\ ChunkLoopBounds(15000, 0, MAX_TOKENS, OVERLAP_TOKENS)
          = <<[start |-> 0, end |-> 6000], [start |-> 5900, end |-> 11900],
              [start |-> 11800, end |-> 15000]>>
    /\ ChunkLoopBounds(15000, 0, MAX_TOKENS, OVERLAP_TOKENS)
          = [k \in 1..3 |-> WindowNumbered(15000, MAX_TOKENS, MAX_TOKENS - OVERLAP_TOKENS, k - 1)]
    /\ \A i \in 1..3 : IdFormat(UploadChunkId(DocPath, 3, i - 1), i)

\* three windows with overlap, the last one cut at the end of the tokens, one
\* of them blank, so that the chunks are fewer than the windows
C19_Witness ==
    /\ Has("windows") /\ Stepping
    /\ call.overlap_tokens >= 1
    /\ Len(ret.windows) = 3
    /\ ret.windows[3].end - ret.windows[3].start < call.max_tokens
    /\ Len(ret.chunks) = 2

-----------------------------------------------------------------------------
(* C20: chunk_text_by_tokens terminates *)

Returned == Has("at") /\ ret.at = "returned"

\* C20: every call of chunk_text_by_tokens returns.  With a positive step the
\* start of pass k + 1 is k * step and the loop is over after the passes
\* with k * step < n, when start >= n; with a step of 0 or less the loop is
\* left after exactly one pass, with one chunk at most.  The passes never
\* reach the cap of the model, and the list returned is the one both
\* classes compute.
C20_ChunkingTerminates ==
    /\ <>Returned
    /\ [](Has("at") =>
            LET step == call.max_tokens - call.overlap_tokens
                n == Len(ret.tokens)
            IN  /\ ret.passes <= MaxTextLen
                /\ step > 0 => ret.start = ret.passes * step
                /\ ret.at = "while" /\ ret.passes > 0 => step > 0
                /\ step <= 0 => ret.passes <= 1 /\ Len(ret.emitted) <= 1
                /\ Returned /\ n > call.max_tokens =>
                      /\ step > 0 =>
                            /\ ret.start >= n
                            /\ ret.passes = Cardinality(WindowNumbers(n, step))
                      /\ step <= 0 => ret.passes = 1
                /\ Returned =>
                      /\ ret.emitted = TextUploader_chunk_text_by_tokens(
                                           call.text, call.max_tokens, call.overlap_tokens)
                      /\ ret.emitted = PineconeValidator_chunk_text_by_tokens(
                                           call.text, call.max_tokens, call.overlap_tokens))

\* a call with overlap_tokens above max_tokens on a longer text, returned
\* after one pass with one chunk
C20_Witness ==
    /\ Returned
    /\ call.max_tokens >= 1
    /\ call.overlap_tokens > call.max_tokens
    /\ Len(ret.tokens) > call.max_tokens + 1
    /\ ret.passes = 1
    /\ Len(ret.emitted) = 1

-----------------------------------------------------------------------------
(* C21: _wait_until_ready terminates *)

Waiting == pc = "wait_until_ready"

\* C21 as claimed: _wait_until_ready is left in two ways only, by the return
\* after describe_index said ready and by TimeoutError after the timeout.
C21_ReturnsReadyOrTimesOut ==
    [][Waiting /\ ~Waiting' =>
          \/ pc' = "index_ready" /\ pinecone'.ready
          \/ pc' = "idle" /\ Last(log').msg = "TimeoutError" /\ waited > timeout]_vars

\* C21, what the code does: _wait_until_ready is always left, and in three
\* ways: it returns when describe_index said ready, create_index binding
\* self.index after that; it raises TimeoutError when more than timeout
\* seconds have been slept; and it raises UnboundLocalError when the first
\* describe_index raised.  A pass that does not leave it sleeps poll seconds,
\* with timeout seconds or fewer slept before.
C21_WaitTerminates ==
    /\ Waiting ~> ~Waiting
    /\ [][Waiting =>
            \/ pc' = "index_ready" /\ pinecone'.ready /\ waited' = waited
                  /\ Last(log') = Line("Index is ready", 0)
            \/ pc' = "idle" /\ Last(log') = Line("TimeoutError", timeout)
                  /\ waited > timeout
            \/ pc' = "idle" /\ Last(log') = Line("UnboundLocalError", 0) /\ waited = 0
            \/ Waiting' /\ waited' = waited + poll /\ waited <= timeout
                  /\ Last(log') = Line("Waiting for index", waited)]_vars
    /\ [](pc = "index_ready" /\ pinecone.created =>
            pinecone.ready /\ Last(log) = Line("Index is ready", 0))
    /\ [](Waiting => waited % poll = 0 /\ waited <= timeout + poll)

\* TimeoutError raised after eight sleeps of two seconds
C21_Witness ==
    /\ pc = "idle"
    /\ log # <<>>
    /\ Last(log) = Line("TimeoutError", timeout)
    /\ waited = 8 * poll
    /\ pinecone.exists /\ ~pinecone.ready

-----------------------------------------------------------------------------
(* C22: describe_index raises while _wait_until_ready polls *)

DescribeErrors == {k \in 1..Len(log) : log[k].msg = "Error describing index (will retry)"}

\* C22 as claimed: an error of describe_index never ends _wait_until_ready;
\* the run goes on to the timeout test and the next poll, and no exception
\* but TimeoutError is raised.
C22_DescribeErrorRetried ==
    \A k \in DescribeErrors :
        /\ k < Len(log)
        /\ log[k + 1].msg \in {"TimeoutError", "Waiting for index"}

\* C22, what the code does: an error of describe_index is printed.  In a
\* pass after the first it is swallowed: the timeout is tested and the loop
\* sleeps and polls again, or raises TimeoutError.  In the first pass
\* the print of the Waiting line raises UnboundLocalError, which ends the
\* run; that is the only place where it is raised.
C22_FirstDescribeErrorEscapes ==
    /\ \A k \in DescribeErrors :
          /\ k < Len(log)
          /\ log[k].n = 0 => log[k + 1] = Line("UnboundLocalError", 0)
          /\ log[k].n > 0 =>
                \/ log[k + 1] = Line("Waiting for index", log[k].n) /\ log[k].n <= timeout
                \/ log[k + 1] = Line("TimeoutError", timeout) /\ log[k].n > timeout
    /\ \A k \in 1..Len(log) :
          log[k].msg = "UnboundLocalError" =>
              /\ k = Len(log)
              /\ k > 1
              /\ log[k - 1] = Line("Error describing index (will retry)", 0)
              /\ pc \in {"idle", "validate_directory", "validate_raised"}

\* the first describe_index raised and the run ended with UnboundLocalError,
\* the index created and left not ready
C22_Witness ==
    /\ pc = "idle"
    /\ Len(log) = 3
    /\ log[2] = Line("Error describing index (will retry)", 0)
    /\ log[3] = Line("UnboundLocalError", 0)
    /\ pinecone.exists /\ ~pinecone.ready

-----------------------------------------------------------------------------
(* C23: the ids upload_text_file upserts are among those validate_directory checks *)

BothSides == Has("upserted") /\ Has("ids_to_check")

IdsChecked == {ret.ids_to_check[i] : i \in 1..Len(ret.ids_to_check)}

\* C23: for a document of any text and any set of chunks lost to a skip or an
\* embedding failure, both sides cut the text into the same chunks; every id
\* in an upsert call of upload_text_file is one of validate_directory's
\* ids_to_check, namely the one at the chunk's 1-based place in the chunk list
\* (the id without a number when the document has one chunk), so a chunk
\* after a lost one keeps its number; and every chunk not lost is upserted.
C23_UpsertedIdsChecked ==
    BothSides =>
        /\ ret.chunks = ret.vchunks
        /\ Len(ret.vchunks) > 0 => Len(ret.ids_to_check) = Len(ret.vchunks)
        /\ \A k \in 1..Len(ret.upserted) :
              LET v == ret.upserted[k]
              IN  /\ v.id \in IdsChecked
                  /\ v.chunk \in (1..Len(ret.chunks)) \ ret.lost
                  /\ v.id = ret.ids_to_check[v.chunk]
                  /\ v.id = TextUploader_generate_file_id(
                               call.file_path, IF Len(ret.chunks) > 1 THEN v.chunk ELSE 0)
                  /\ v.chunk = k + Cardinality({c \in ret.lost : c < v.chunk})
        /\ Len(ret.upserted) = Len(ret.chunks) - Cardinality(ret.lost)

\* three chunks, the second lost: the third is upserted as chunk 3, which
\* validate_directory checks as its third id
C23_Witness ==
    /\ BothSides
    /\ Len(ret.chunks) = 3
    /\ ret.lost = {2}
    /\ Len(ret.upserted) = 2
    /\ ret.upserted[2].chunk = 3
    /\ ret.upserted[2].id = ret.ids_to_check[3]
    /\ ret.ids_to_check[3] # ret.ids_to_check[2]

-----------------------------------------------------------------------------
(* C24: what wait_and_rename renames *)

Calls == {ret.returned[k] : k \in 1..Len(ret.returned)}

Valid(folder) == {f \in folder : f.ext = "pdf"}

\* the file of a folder that has the target name of the call's item
Named(folder, r) == {f \in folder : f.name = TargetName(r.item) /\ f.ext = "pdf"}

\* written after the call began: no file the folder held at the call is this one
NewSince(r, f) == \A g \in r.before : g.mtime # f.mtime

\* C24 as claimed: wait_and_rename returns True only when the file that has
\* the target name was downloaded after the call began, every file that was
\* in the folder before is still there under its name, and False is returned
\* once the timeout has elapsed.
C24_RenamesOnlyNewDownload ==
    call.op = "main" =>
        \A r \in Calls :
            /\ r.value => \E f \in Named(r.after, r) : NewSince(r, f)
            /\ Valid(r.before) \subseteq r.after
            /\ ~r.value => r.elapsed >= wait_and_rename_timeout

\* C24, what the code does: wait_and_rename keeps no list of the files that
\* were there when it was called.  It returns True as soon as a pass finds a
\* finished file and the rename does not raise, and the file that then has the
\* target name is the newest finished file of the folder, new or not: with no
\* new download finished yet, that is the document renamed last.  Apart from
\* that file and a file that had the target name, the finished files stay as
\* they were.  It returns False only with the timeout elapsed, after passes
\* that found no finished file or whose rename raised.
C24_RenamesNewestFile ==
    call.op = "main" =>
        \A r \in Calls :
            /\ r.value =>
                  /\ r.elapsed < wait_and_rename_timeout
                  /\ \E f \in Named(r.after, r) :
                        /\ \A g \in Valid(r.after) : g.mtime <= f.mtime
                        /\ \A g \in Valid(r.before) :
                              \/ g \in r.after
                              \/ g.mtime = f.mtime /\ g.doc = f.doc
                  /\ Cardinality(Named(r.after, r)) = 1
            /\ ~r.value =>
                  /\ r.elapsed \in {wait_and_rename_timeout, wait_and_rename_timeout + 1}
                  /\ Valid(r.before) \subseteq r.after

\* the first document was downloaded and renamed; the download of the second
\* has not begun when the first pass of wait_and_rename renames the first
\* document to the second's name and returns True
C24_Witness ==
    /\ call.op = "main"
    /\ Len(ret.returned) = 2
    /\ ret.downloads[2] = "requested"
    /\ LET r == ret.returned[2]
       IN  /\ r.item = 2 /\ r.value /\ r.elapsed = 0
           /\ \E g \in r.before : g.name = TargetName(1) /\ g.doc = 1
                                   /\ [g EXCEPT !.name = TargetName(2)] \in r.after
           /\ \A f \in r.after : f.name # TargetName(1)

====
